---- MODULE Spec2Model ----
(***************************************************************************)
(* Risk decision pipeline of the PFM backend: the login handler            *)
(* (app/main.py), the risk engine (app/risk_engine.py), the behavioural    *)
(* profile (UserIntel) and the threat-intelligence fusion.                 *)
(*                                                                         *)
(* Numbers.  Weights, scale and intercept are fixed-point hundredths       *)
(* (1.6 is 160).  Time is in minutes since the start of the run.           *)
(***************************************************************************)
EXTENDS Integers, Naturals, Sequences, FiniteSets, TLC

VARIABLES
    db,        \* the database: users row, login_events, devices, user_intel
    CONFIG,    \* risk_engine.CONFIG (process-wide RiskConfig)
    RISK,      \* main.RISK_STEP_UP_THRESHOLD / main.RISK_HARD_DENY
    TI,        \* threat_intel._STATE feeds and the lru_cache of lookup_ip
    tick,      \* index of the wall clock, now == TimeAt(tick)
    last,      \* what the last handler call did (observation only)
    sc,        \* scoring pipeline under test (pure-function specification)
    loc,       \* locals (and position) of each concurrent login request
    db0        \* database at the start of the concurrent run

vars == <<db, CONFIG, RISK, TI, tick, last, sc, loc, db0>>

None == "None"      \* Python None where a string is expected
NoTime == -1        \* Python None where a datetime is expected

Min(a, b) == IF a <= b THEN a ELSE b
Max(a, b) == IF a >= b THEN a ELSE b

(***************************************************************************)
(* Bounds of the model.                                                    *)
(***************************************************************************)
MaxTick == 1        \* the clock takes the instants TimeAt(0..MaxTick)
MaxEvents == 3      \* login events kept per account
MaxTx == 2          \* transactions learned per account

(***************************************************************************)
(* Program constants.                                                      *)
(***************************************************************************)
LOCK_WINDOW_MIN == 15
MAX_FAILS == 5
ColdStartCap == 55
HalfLifeDays == 30
SpeedLimitKmh == 750
BumpBadIp == 30
BumpTorExit == 25
BumpBadAsn == 15
BumpDisposableEmail == 15
BumpBreachedCred == 0

FeatureNames == {"new_device", "untrusted_device", "ip_changed", "new_city",
                 "rare_city", "odd_hour", "uncommon_hour", "impossible_travel",
                 "consecutive_fails"}

\* RiskConfig() defaults, weights in hundredths
DefaultWeights ==
    [bias |-> -150, new_device |-> 220, untrusted_device |-> 160,
     ip_changed |-> 60, new_city |-> 100, rare_city |-> 50, odd_hour |-> 40,
     uncommon_hour |-> 25, impossible_travel |-> 240, consecutive_fails |-> 65,
     no_prior_success_cap |-> 0, device_age_decay |-> 0]

DefaultConfig ==
    [weights |-> DefaultWeights, scale |-> 100, intercept |-> 0,
     step_up_threshold |-> 60, hard_deny_threshold |-> 90]

(***************************************************************************)
(* _sigmoid followed by int(round(p * 100)).  SigmoidCuts[k] is the least  *)
(* z (in 1/10000) for which round(100 * sigmoid(z)) >= k.                  *)
(***************************************************************************)
SigmoidCuts ==
    <<-52933, -41845, -36635, -33167, -30550, -28438, -26661, -25123, -23762,
      -22540, -21428, -20406, -19459, -18574, -17743, -16959, -16214, -15505,
      -14828, -14178, -13553, -12950, -12367, -11802, -11254, -10721, -10201,
      -9694, -9197, -8712, -8236, -7768, -7308, -6856, -6410, -5971, -5537,
      -5108, -4683, -4263, -3846, -3433, -3022, -2614, -2208, -1804, -1402,
      -1000, -600, -200, 201, 601, 1001, 1403, 1805, 2209, 2615, 3023, 3434,
      3847, 4264, 4684, 5109, 5538, 5972, 6411, 6857, 7309, 7769, 8237, 8713,
      9198, 9695, 10202, 10722, 11255, 11803, 12368, 12951, 13554, 14179,
      14829, 15506, 16215, 16960, 17744, 18575, 19460, 20407, 21429, 22541,
      23763, 25124, 26662, 28439, 30551, 33168, 36636, 41846, 52934>>

\* round(100 * _sigmoid(z4 / 10000))
SigmoidPct(z4) == Cardinality({k \in 1..100 : z4 >= SigmoidCuts[k]})

\* weights.get(k, 0.0)
WeightOf(cfg, k) == IF k \in DOMAIN cfg.weights THEN cfg.weights[k] ELSE 0

\* sum of weights.get(k) * features[k] over the keys K of the feature vector
RECURSIVE SumTerms(_, _, _)
SumTerms(K, features, cfg) ==
    IF K = {} THEN 0
    ELSE LET k == CHOOSE x \in K : TRUE
         IN  WeightOf(cfg, k) * features[k] + SumTerms(K \ {k}, features, cfg)

\* bias + sum of weight * value, in hundredths
WeightedSum(features, cfg) ==
    WeightOf(cfg, "bias") + SumTerms(DOMAIN features, features, cfg)

\* max(0, min(x, 100))
Clamp100(x) == Max(0, Min(x, 100))

\* linear_score: the total (the list of trace parts is not kept)
linear_score(features, cfg) ==
    LET s  == WeightedSum(features, cfg)
        z4 == cfg.scale * s + 100 * cfg.intercept
    IN  Clamp100(SigmoidPct(z4))

(***************************************************************************)
(* 0.5 ** (days / 30) as a fraction: DecayTable[d % 30 + 1] / (10^7 *      *)
(* 2^(d \div 30)), and Python's round (half to even).                      *)
(***************************************************************************)
DecayTable ==
    <<10000000, 9771600, 9548416, 9330330, 9117225, 8908987, 8705506,
      8506672, 8312379, 8122524, 7937005, 7755724, 7578583, 7405488, 7236346,
      7071068, 6909564, 6751750, 6597540, 6446852, 6299605, 6155722, 6015125,
      5877740, 5743492, 5612310, 5484125, 5358867, 5236471, 5116869>>

DecayScale == 10000000

RECURSIVE Pow2(_)
Pow2(n) == IF n = 0 THEN 1 ELSE 2 * Pow2(n - 1)

\* round(n / d) with ties to the even integer, n >= 0, d > 0
RoundHalfEven(n, d) ==
    LET q == n \div d
        r == n % d
    IN  IF 2 * r > d \/ (2 * r = d /\ q % 2 = 1) THEN q + 1 ELSE q

\* a mutant of Decayed: no decay
Decayed_none(total, days) == total

\* int(round(total * 0.5 ** (days / 30.0)))
Decayed(total, days) ==
    RoundHalfEven(total * DecayTable[(days % HalfLifeDays) + 1],
                  DecayScale * Pow2(days \div HalfLifeDays))

\* a mutant of ColdStart: the cap is not applied
ColdStart_nocap(total, prior_successes) == total

\* if prior_successes == 0: total = min(total, 55)
ColdStart(total, prior_successes) ==
    IF prior_successes = 0 THEN Min(total, ColdStartCap) ELSE total

\* max((now - first_seen).days, 0)
DaysSince(now, first_seen) == Max((now - first_seen) \div 1440, 0)

\* apply_post_rules
apply_post_rules(total, prior_successes, known_device_first_seen, now) ==
    LET t1 == ColdStart(total, prior_successes)
        t2 == IF known_device_first_seen # NoTime
              THEN LET days == DaysSince(now, known_device_first_seen)
                   IN  IF days > 0 THEN Decayed(t1, days) ELSE t1
              ELSE t1
    IN  Clamp100(t2)

\* a mutant of TiExtra: one flat bump whatever the flags that are set
TiExtra_flat(flags) ==
    IF \E k \in DOMAIN flags : flags[k] THEN BumpBadIp ELSE 0

\* extra points of the threat-intelligence flags (lookup_ip's suggestion
\* plus the e-mail bumps added by login)
TiExtra(flags) ==
      (IF flags.ti_bad_ip THEN BumpBadIp ELSE 0)
    + (IF flags.ti_tor_exit THEN BumpTorExit ELSE 0)
    + (IF flags.ti_bad_asn THEN BumpBadAsn ELSE 0)
    + (IF flags.ti_disposable_email THEN BumpDisposableEmail ELSE 0)
    + (IF flags.ti_breached_cred THEN BumpBreachedCred ELSE 0)

\* a mutant of Fuse: the sum is not capped
Fuse_nocap(base_score, extra) == base_score + extra

\* total_score = min(100, int(base_score) + int(extra))
Fuse(base_score, extra) == Min(100, base_score + extra)

(***************************************************************************)
(* Geo resolver and wall clock.                                            *)
(***************************************************************************)
IpPrivate == "10.0.0.5"
IpLondon == "81.2.69.160"
IpTokyo == "133.11.0.1"

\* the instants of the wall clock, in minutes: 0, 30d + 1h, 60d + 2h, ...
TimeAt(i) == (43200 + 60) * i

\* datetime.hour
HourOf(t) == (t \div 60) % 24

\* _is_private
_is_private(ip) == ip = IpPrivate

\* _geo_for_ip: the city label, (0.0, 0.0, "Unknown") for a private address
_geo_for_ip(ip) ==
    IF _is_private(ip) THEN "Unknown"
    ELSE IF ip = IpLondon THEN "London, GB"
    ELSE IF ip = IpTokyo THEN "Tokyo, JP"
    ELSE "Unknown"

\* _haversine_km between the coordinates _geo_for_ip gives two addresses
_haversine_km(ip1, ip2) ==
    LET c1 == _geo_for_ip(ip1)
        c2 == _geo_for_ip(ip2)
        pair == {c1, c2}
    IN  IF c1 = c2 THEN 0
        ELSE IF pair = {"London, GB", "Tokyo, JP"} THEN 9557
        ELSE IF pair = {"Unknown", "London, GB"} THEN 5726
        ELSE 14262

(***************************************************************************)
(* Maps (Python dicts) as functions with a growing domain.                 *)
(***************************************************************************)
EmptyMap == [x \in {} |-> 0]
MapGet(m, k, dflt) == IF k \in DOMAIN m THEN m[k] ELSE dflt
MapPut(m, k, v) == [x \in (DOMAIN m) \cup {k} |-> IF x = k THEN v ELSE m[x]]

(***************************************************************************)
(* The database of one account.                                            *)
(***************************************************************************)
UserId == 1
Devices == {"d1", "d2"}
Hours == 0..23

\* {str(h): 0 for h in range(24)}
ZeroHist == [h \in Hours |-> 0]

\* a mutant of NewIntel: the histogram is created without its 24 keys
NewIntel_unfilled ==
    [login_hours_hist |-> EmptyMap, login_cities |-> EmptyMap,
     device_trust |-> EmptyMap, tx_category_stats |-> EmptyMap,
     tx_merchant_counts |-> EmptyMap]

\* the UserIntel row written by _get_or_create_intel
NewIntel ==
    [login_hours_hist |-> ZeroHist, login_cities |-> EmptyMap,
     device_trust |-> EmptyMap, tx_category_stats |-> EmptyMap,
     tx_merchant_counts |-> EmptyMap]

HasIntel(D) == UserId \in DOMAIN D.user_intel

\* _get_or_create_intel: the database with the account's row present
_get_or_create_intel(D) ==
    IF HasIntel(D) THEN D
    ELSE [D EXCEPT !.user_intel = MapPut(D.user_intel, UserId, NewIntel)]

\* the row _get_or_create_intel returns
IntelOf(D) == _get_or_create_intel(D).user_intel[UserId]

\* models.LoginEvent row
LoginEvent(ts, ip, device_hash, success, risk_score, risk_reason) ==
    [ts |-> ts, ip |-> ip, device_hash |-> device_hash, success |-> success,
     risk_score |-> risk_score, risk_reason |-> risk_reason]

\* models.DeviceFingerprint row
DeviceFingerprint(trusted, first_seen, last_ip) ==
    [trusted |-> trusted, first_seen |-> first_seen, last_seen |-> first_seen,
     last_ip |-> last_ip, bind_token_hash |-> FALSE]

\* sum(1 for r in rows if r.success)
RECURSIVE CountSuccess(_)
CountSuccess(rows) ==
    IF rows = <<>> THEN 0
    ELSE (IF rows[Len(rows)].success THEN 1 ELSE 0)
         + CountSuccess(SubSeq(rows, 1, Len(rows) - 1))

\* a mutant of HadSuccess: the prior-success gate is always open
HadSuccess_always(events) == TRUE

\* had_success: the account has a LoginEvent with success == True
HadSuccess(events) == \E i \in 1..Len(events) : events[i].success

\* [r for r in evts if r.success]
Successes(evts) == SelectSeq(evts, LAMBDA r : r.success)

(***************************************************************************)
(* Feature extractor (risk_engine.login_features).                         *)
(***************************************************************************)
NoSpeed == [km60 |-> 0, mins |-> 0, present |-> FALSE]

\* speed_kmh of login: distance / max(hours, 0.05) between the last two
\* successes of the candidate history, kept as the fraction km60 / mins
SpeedOf(candidate) ==
    LET ss == Successes(candidate)
        n  == Len(ss)
    IN  IF n >= 2
        THEN [km60 |-> 60 * _haversine_km(ss[n - 1].ip, ss[n].ip),
              mins |-> Max(ss[n].ts - ss[n - 1].ts, 3),
              present |-> TRUE]
        ELSE NoSpeed

\* speed_kmh is not None and speed_kmh > 750.0
SpeedOver(speed) == speed.present /\ speed.km60 > SpeedLimitKmh * speed.mins

login_features(recent_rows, login_cities, login_hours_hist, device_trust, ip_city, is_private_ip, device_hash, known_device, ip_changed, consecutive_fails, now, speed_kmh) ==
    LET trusted == MapGet(device_trust, device_hash, FALSE)
        dev_like == is_private_ip \/ ip_city = "Unknown"
        prior_successes ==
            CountSuccess(SubSeq(recent_rows, 1, Len(recent_rows) - 1))
        seen_city == MapGet(login_cities, ip_city, 0)
        hour_count == MapGet(login_hours_hist, HourOf(now), 0)
        city_on == ~dev_like /\ prior_successes >= 1
        hour_on == prior_successes >= 3
    IN  [f |->
            [new_device |-> IF device_hash # None /\ ~known_device THEN 1 ELSE 0,
             untrusted_device |-> IF ~trusted THEN 1 ELSE 0,
             ip_changed |-> IF ip_changed THEN 1 ELSE 0,
             new_city |-> IF city_on /\ seen_city = 0 THEN 1 ELSE 0,
             rare_city |-> IF city_on /\ seen_city <= 2 /\ seen_city > 0
                           THEN 1 ELSE 0,
             odd_hour |-> IF hour_on /\ hour_count = 0 THEN 1 ELSE 0,
             uncommon_hour |-> IF hour_on /\ hour_count <= 2 /\ hour_count > 0
                               THEN 1 ELSE 0,
             impossible_travel |-> IF SpeedOver(speed_kmh) THEN 1 ELSE 0,
             consecutive_fails |-> Max(consecutive_fails, 0)],
         prior_successes |-> prior_successes]

\* risk_engine.score_login
score_login(cfg, recent_rows, login_cities, login_hours_hist, device_trust, ip_city, is_private_ip, device_hash, known_device, ip_changed, consecutive_fails, now, speed_kmh, known_device_first_seen) ==
    LET fn == login_features(recent_rows, login_cities, login_hours_hist,
                             device_trust, ip_city, is_private_ip, device_hash,
                             known_device, ip_changed, consecutive_fails, now,
                             speed_kmh)
        lin == linear_score(fn.f, cfg)
    IN  [features |-> fn.f, prior_successes |-> fn.prior_successes,
         linear |-> lin,
         total |-> apply_post_rules(lin, fn.prior_successes,
                                    known_device_first_seen, now)]

(***************************************************************************)
(* Threat intelligence (threat_intel.py).                                  *)
(***************************************************************************)
TI_BAD_EMAIL_DOMAINS == {"mailinator.com"}
NoTiFlags ==
    [ti_bad_ip |-> FALSE, ti_tor_exit |-> FALSE, ti_bad_asn |-> FALSE,
     ti_score_bump_suggest |-> 0]

\* ipaddress.ip_address(ip) does not raise
IsIpAddress(ip) == ip # "not-an-ip"

\* the body of lookup_ip (what is computed on a cache miss)
lookup_ip_uncached(T, ip) ==
    IF ~T.enabled \/ ~IsIpAddress(ip) THEN NoTiFlags
    ELSE [ti_bad_ip |-> ip \in T.ip_bad,
          ti_tor_exit |-> ip \in T.ip_tor,
          ti_bad_asn |-> FALSE,
          ti_score_bump_suggest |->
              (IF ip \in T.ip_bad THEN BumpBadIp ELSE 0)
            + (IF ip \in T.ip_tor THEN BumpTorExit ELSE 0)]

\* @lru_cache lookup_ip: the answer
lookup_ip(T, ip) ==
    IF ip \in DOMAIN T.cache THEN T.cache[ip] ELSE lookup_ip_uncached(T, ip)

\* @lru_cache lookup_ip: the state after the call
lookup_ip_state(T, ip) ==
    IF ip \in DOMAIN T.cache THEN T
    ELSE [T EXCEPT !.cache = MapPut(T.cache, ip, lookup_ip_uncached(T, ip))]

\* check_email_domain(...)["ti_disposable_email"]
check_email_domain(T, domain) == T.enabled /\ domain \in T.bad_domains

\* check_breached_cred(...)["ti_breached_cred"]
check_breached_cred == FALSE

\* a mutant of reload: the feeds are loaded whether or not TI is enabled
reload_always(T, files) == [T EXCEPT !.ip_bad = files.bad, !.ip_tor = files.tor, !.asn_bad = files.asn, !.bad_domains = TI_BAD_EMAIL_DOMAINS]

\* threat_intel.reload with the feed files holding `files`; _parse_cidrs
\* drops the lines that are no address
reload(T, files) ==
    IF ~T.enabled
    THEN [T EXCEPT !.ip_bad = {}, !.ip_tor = {}, !.asn_bad = {},
                   !.bad_domains = {}]
    ELSE [T EXCEPT !.ip_bad = {x \in files.bad : IsIpAddress(x)},
                   !.ip_tor = {x \in files.tor : IsIpAddress(x)},
                   !.asn_bad = files.asn,
                   !.bad_domains = TI_BAD_EMAIL_DOMAINS]

\* threat_intel.status: enabled and counts
status(T) ==
    [enabled |-> T.enabled,
     counts |-> [bad_ip |-> Cardinality(T.ip_bad), tor |-> Cardinality(T.ip_tor),
                 bad_asn |-> Cardinality(T.asn_bad),
                 bad_domains |-> Cardinality(T.bad_domains)]]


(***************************************************************************)
(* POST /auth/login (main.login), cut at its database statements.          *)
(* A request keeps its locals in a record l; l.status is where it stands:  *)
(*   "auth"   before the user row is read                                  *)
(*   "score"  password accepted, before the profile and history are read   *)
(*   "commit" decision taken, before the outcome is committed              *)
(*   "learn"  success committed, before _learn_login reads the profile     *)
(*   "write"  _learn_login has read the profile, before its commit         *)
(*   "locked", "bad_password", "hard_deny", "ok": the request has returned *)
(***************************************************************************)
ZeroFeatures == [k \in FeatureNames |-> 0]

LoginBody(ip, device, token, password_ok) ==
    [ip |-> ip, device |-> device, token |-> token, password_ok |-> password_ok]

NewLocals(body) ==
    [body |-> body, status |-> "auth", device_hash |-> None, known |-> FALSE,
     known_last_ip |-> None, known_first_seen |-> NoTime, bound |-> None,
     consecutive_fails |-> 0, reset_pending |-> FALSE, now |-> NoTime,
     profile_read |-> NewIntel, recent |-> <<>>, features |-> ZeroFeatures,
     prior_successes |-> 0, had_success |-> FALSE, linear |-> 0,
     base_score |-> 0, extra |-> 0, total_score |-> 0, decision |-> None,
     learn_intel |-> NewIntel, learn_trust |-> None]

Finished(l) == l.status \in {"locked", "bad_password", "hard_deny", "ok"}

\* the session's pending "failed_attempts = 0, lock_until = None" reaches the
\* database with the next commit
FlushUser(D, l) ==
    IF l.reset_pending
    THEN [D EXCEPT !.user.failed_attempts = 0, !.user.lock_until = NoTime]
    ELSE D

\* a mutant of BadPasswordEvent: the failed attempt is not recorded
BadPasswordEvent_none(events, clock, ip, device_hash) == events

\* db.add(LoginEvent(success=False, risk_score=0, risk_reason="bad_password"))
BadPasswordEvent(events, clock, ip, device_hash) ==
    Append(events, LoginEvent(clock, ip, device_hash, FALSE, 0, "bad_password"))

\* if bound_device and not bound_device.trusted: trust it, in the device row
\* and in the profile's device_trust map
RedeemBinding(D, bound, device_hash) ==
    IF bound # None /\ ~D.devices[bound].trusted
    THEN LET D1 == _get_or_create_intel(D)
         IN  [D1 EXCEPT !.devices[bound].trusted = TRUE,
                        !.user_intel[UserId].device_trust =
                            MapPut(@, bound, TRUE)]
    ELSE D

\* a mutant of Locked: the lock is never honoured
Locked_never(u, clock) == FALSE

\* user.lock_until and datetime.utcnow() < user.lock_until
Locked(u, clock) == u.lock_until # NoTime /\ clock < u.lock_until

\* login, lines 206-280: lock check, device and binding-token lookup,
\* password check, counter reset, binding-token redemption
login_auth(D, body, clock) ==
    LET l0 == NewLocals(body)
        u  == D.user
    IN  IF Locked(u, clock)
        THEN [db |-> D, l |-> [l0 EXCEPT !.status = "locked"]]
        ELSE
        LET tokenOk == /\ body.token \in DOMAIN D.devices
                       /\ D.devices[body.token].bind_token_hash
            bound == IF tokenOk THEN body.token ELSE None
            dh    == IF bound # None THEN bound ELSE body.device
            known == dh \in DOMAIN D.devices
            fa    == u.failed_attempts + 1
        IN  IF ~body.password_ok
            THEN [db |-> [D EXCEPT
                            !.user.failed_attempts = fa,
                            !.user.lock_until =
                                IF fa >= MAX_FAILS
                                THEN clock + LOCK_WINDOW_MIN ELSE @,
                            !.login_events =
                                BadPasswordEvent(@, clock, body.ip, dh)],
                  l |-> [l0 EXCEPT !.status = "bad_password",
                                   !.device_hash = dh]]
            ELSE [db |-> RedeemBinding(D, bound, dh),
                  l |-> [l0 EXCEPT
                           !.status = "score",
                           !.device_hash = dh,
                           !.known = known,
                           !.bound = bound,
                           !.known_last_ip =
                               IF known THEN D.devices[dh].last_ip ELSE None,
                           !.known_first_seen =
                               IF known THEN D.devices[dh].first_seen
                               ELSE NoTime,
                           !.consecutive_fails = u.failed_attempts,
                           !.reset_pending = TRUE]]

\* a mutant of Decide: step-up is tested before hard deny
Decide_swapped(total_score, had_success, risk) ==
    IF total_score >= risk.step_up THEN "STEP_UP"
    ELSE IF total_score >= risk.hard_deny /\ had_success THEN "HARD_DENY"
    ELSE "ALLOW"

\* login, lines 369-379: the decision
Decide(total_score, had_success, risk) ==
    IF total_score >= risk.hard_deny /\ had_success THEN "HARD_DENY"
    ELSE IF total_score >= risk.step_up THEN "STEP_UP"
    ELSE "ALLOW"

\* extra = int(ti_ip["ti_score_bump_suggest"]) + e-mail and breach bumps
LoginExtra(T, ip, domain) ==
      lookup_ip(T, ip).ti_score_bump_suggest
    + (IF check_email_domain(T, domain) THEN BumpDisposableEmail ELSE 0)
    + (IF check_breached_cred THEN BumpBreachedCred ELSE 0)

\* login, lines 282-379: read profile and history, score, fuse, decide
login_score(D, T, cfg, risk, l, clock) ==
    LET D1 == IF HasIntel(D) THEN D ELSE FlushUser(_get_or_create_intel(D), l)
        l1 == IF HasIntel(D) THEN l ELSE [l EXCEPT !.reset_pending = FALSE]
        intel == D1.user_intel[UserId]
        recent == D1.login_events
        ip == l.body.ip
        candidate ==
            Append(recent, LoginEvent(clock, ip, l.device_hash, TRUE, 0, "ok"))
        is_new_device == l.device_hash # None /\ ~l.known
        ip_changed == l.known /\ l.known_last_ip # None /\ l.known_last_ip # ip
        r == score_login(cfg, candidate, intel.login_cities,
                         intel.login_hours_hist, intel.device_trust,
                         _geo_for_ip(ip), _is_private(ip), l.device_hash,
                         ~is_new_device, ip_changed, l.consecutive_fails,
                         clock, SpeedOf(candidate), l.known_first_seen)
        extra == LoginExtra(T, ip, D.user.email_domain)
        total == Fuse(r.total, extra)
        had == HadSuccess(recent)
    IN  [db |-> D1,
         l |-> [l1 EXCEPT !.status = "commit", !.now = clock,
                          !.profile_read = intel, !.recent = recent,
                          !.features = r.features,
                          !.prior_successes = r.prior_successes,
                          !.had_success = had, !.linear = r.linear,
                          !.base_score = r.total, !.extra = extra,
                          !.total_score = total,
                          !.decision = Decide(total, had, risk)]]

\* db.add(LoginEvent(success=False, risk_reason="hard_deny|..."))
HardDenyEvent(events, clock, ip, device_hash, total_score) ==
    Append(events,
           LoginEvent(clock, ip, device_hash, FALSE, total_score, "hard_deny"))

\* login, lines 381-399: create the device row or refresh it
UpsertDevice(devices, l) ==
    IF l.device_hash = None THEN devices
    ELSE IF ~l.known
    THEN MapPut(devices, l.device_hash,
                DeviceFingerprint(l.bound # None, l.now, l.body.ip))
    ELSE IF l.device_hash \in DOMAIN devices
    THEN [devices EXCEPT ![l.device_hash].last_seen = l.now,
                         ![l.device_hash].last_ip = l.body.ip]
    ELSE devices

\* login, lines 370-406: commit the outcome
login_commit(D, l, clock) ==
    LET D1 == FlushUser(D, l)
    IN  IF l.decision = "HARD_DENY"
        THEN [db |-> [D1 EXCEPT !.login_events =
                         HardDenyEvent(@, clock, l.body.ip, l.device_hash,
                                       l.total_score)],
              l |-> [l EXCEPT !.status = "hard_deny",
                              !.reset_pending = FALSE]]
        ELSE [db |-> [D1 EXCEPT
                        !.devices = UpsertDevice(@, l),
                        !.login_events =
                            Append(@, LoginEvent(clock, l.body.ip,
                                                 l.device_hash, TRUE,
                                                 l.total_score, "ok"))],
              l |-> [l EXCEPT !.status = "learn", !.reset_pending = FALSE]]

\* _learn_login, lines 964 and 976-979: read the profile and the device row
learn_read(D, l) ==
    LET D1 == _get_or_create_intel(D)
    IN  [db |-> D1,
         l |-> [l EXCEPT
                  !.status = "write",
                  !.learn_intel = D1.user_intel[UserId],
                  !.learn_trust =
                      IF l.device_hash # None
                         /\ l.device_hash \in DOMAIN D1.devices
                      THEN IF D1.devices[l.device_hash].trusted
                           THEN "yes" ELSE "no"
                      ELSE None]]

\* _learn_login, lines 965-981: the three columns it assigns
LearnedProfile(intel, l) ==
    LET h == HourOf(l.now)
        city == _geo_for_ip(l.body.ip)
    IN  [login_hours_hist |->
             MapPut(intel.login_hours_hist, h,
                    MapGet(intel.login_hours_hist, h, 0) + 1),
         login_cities |->
             MapPut(intel.login_cities, city,
                    MapGet(intel.login_cities, city, 0) + 1),
         device_trust |->
             IF l.learn_trust # None
             THEN MapPut(intel.device_trust, l.device_hash,
                         l.learn_trust = "yes")
             ELSE intel.device_trust]

\* _learn_login, line 982: db.add(intel); db.commit()
learn_commit(D, l) ==
    LET n == LearnedProfile(l.learn_intel, l)
    IN  [db |-> [D EXCEPT
                   !.user_intel[UserId].login_hours_hist = n.login_hours_hist,
                   !.user_intel[UserId].login_cities = n.login_cities,
                   !.user_intel[UserId].device_trust = n.device_trust],
         l |-> [l EXCEPT !.status = "ok"]]

\* one statement group of a login request, by its position
login_step(D, T, cfg, risk, l, clock) ==
    IF l.status = "auth" THEN login_auth(D, l.body, clock)
    ELSE IF l.status = "score" THEN login_score(D, T, cfg, risk, l, clock)
    ELSE IF l.status = "commit" THEN login_commit(D, l, clock)
    ELSE IF l.status = "learn" THEN learn_read(D, l)
    ELSE IF l.status = "write" THEN learn_commit(D, l)
    ELSE [db |-> D, l |-> l]

\* a whole login request run without interruption
RECURSIVE login_run(_, _, _, _, _, _)
login_run(D, T, cfg, risk, l, clock) ==
    IF Finished(l) THEN [db |-> D, l |-> l]
    ELSE LET r == login_step(D, T, cfg, risk, l, clock)
         IN  login_run(r.db, T, cfg, risk, r.l, clock)

\* POST /auth/login served alone
login(D, T, cfg, risk, body, clock) ==
    login_run(D, T, cfg, risk, NewLocals(body), clock)


(***************************************************************************)
(* Security-centre handlers on devices.                                    *)
(***************************************************************************)
\* POST /security/devices/{device_hash}/trust (404 leaves the state alone)
trust_device(D, device_hash) ==
    IF device_hash \in DOMAIN D.devices
    THEN [D EXCEPT !.devices[device_hash].trusted = TRUE]
    ELSE D

\* POST /security/devices/{device_hash}/bind: a fresh token is issued
bind_device(D, device_hash) ==
    IF device_hash \in DOMAIN D.devices
    THEN [D EXCEPT !.devices[device_hash].bind_token_hash = TRUE]
    ELSE D

\* POST /security/devices/{device_hash}/unbind
unbind_device(D, device_hash) ==
    IF device_hash \in DOMAIN D.devices
    THEN [D EXCEPT !.devices[device_hash].bind_token_hash = FALSE]
    ELSE D

(***************************************************************************)
(* Risk configuration (risk_engine.update_config, main.put_risk_config).   *)
(* A request body is the map `set` of the fields that carry a value and    *)
(* the set `nulls` of the fields sent as null.                             *)
(***************************************************************************)
ConfigFields ==
    <<"weights", "scale", "intercept", "step_up_threshold",
      "hard_deny_threshold">>

\* CONFIG.weights.update(...)
MergeWeights(old, new) ==
    [k \in (DOMAIN old) \cup (DOMAIN new) |->
        IF k \in DOMAIN new THEN new[k] ELSE old[k]]

\* update_config applied to the fields i..5 in its order; float(None) and
\* int(None) raise, and the assignments made before stay
RECURSIVE update_from(_, _, _)
update_from(cfg, body, i) ==
    IF i > Len(ConfigFields) THEN [cfg |-> cfg, raised |-> FALSE]
    ELSE LET k == ConfigFields[i]
         IN  IF k \in body.nulls
             THEN IF k = "weights" THEN update_from(cfg, body, i + 1)
                  ELSE [cfg |-> cfg, raised |-> TRUE]
             ELSE IF k \in DOMAIN body.set
             THEN IF k = "weights"
                  THEN update_from(
                         [cfg EXCEPT !.weights = MergeWeights(@, body.set[k])],
                         body, i + 1)
                  ELSE update_from([cfg EXCEPT ![k] = body.set[k]], body, i + 1)
             ELSE update_from(cfg, body, i + 1)

\* risk_engine.update_config
update_config(cfg, body) == update_from(cfg, body, 1)

\* PUT /risk/config: update_config, then align main's two thresholds
put_risk_config(cfg, risk, body) ==
    LET u == update_config(cfg, body)
    IN  IF u.raised THEN [cfg |-> u.cfg, risk |-> risk, raised |-> TRUE]
        ELSE [cfg |-> u.cfg,
              risk |-> [step_up |-> u.cfg.step_up_threshold,
                        hard_deny |-> u.cfg.hard_deny_threshold],
              raised |-> FALSE]

(***************************************************************************)
(* Transactions and the learned profile.                                   *)
(* Amounts are whole currency units; median and mad are in thousandths.    *)
(***************************************************************************)
Abs(x) == IF x < 0 THEN 0 - x ELSE x

\* str.upper on the categories of the model
Upper(c) == IF c \in {"food", "FOOD"} THEN "FOOD" ELSE c

\* str.lower on the merchants of the model
Lower(m) == IF m \in {"Cafe", "cafe"} THEN "cafe" ELSE m

NoStats == [n |-> 0, median |-> 0, mad |-> 0]

\* _learn_tx, lines 986-996: the statistics of the category after `amount`
LearnedStats(s, amount) ==
    LET med == IF s.n = 0 THEN 1000 * amount
               ELSE (9 * s.median + 1000 * amount) \div 10
        mad == IF s.n = 0 THEN 0
               ELSE (9 * s.mad + Abs(1000 * amount - med)) \div 10
    IN  [n |-> s.n + 1, median |-> med, mad |-> mad]

\* _learn_tx
_learn_tx(D, amount, category, merchant) ==
    LET D1 == _get_or_create_intel(D)
        intel == D1.user_intel[UserId]
        s == MapGet(intel.tx_category_stats, category, NoStats)
        key == Lower(merchant)
    IN  [D1 EXCEPT
           !.user_intel[UserId].tx_category_stats =
               MapPut(@, category, LearnedStats(s, amount)),
           !.user_intel[UserId].tx_merchant_counts =
               IF merchant # None
               THEN MapPut(@, key, MapGet(@, key, 0) + 1)
               ELSE @]

\* POST /transactions
add_tx(D, amount, category, merchant) ==
    _learn_tx([D EXCEPT !.transactions =
                   Append(@, [amount |-> amount, category |-> category,
                              merchant |-> merchant])],
              amount, Upper(category), merchant)

\* GET /intelligence/profile (creates the row on first reference)
intel_profile(D) == _get_or_create_intel(D)

(***************************************************************************)
(* The system: one account served one request at a time.                   *)
(***************************************************************************)
Now == TimeAt(tick)

\* the requests of the model: first and second device, with and without
\* the binding token of d1, right and wrong password, no device at all
LoginBodies ==
    {LoginBody(IpLondon, "d1", None, TRUE),
     LoginBody(IpLondon, "d1", None, FALSE),
     LoginBody(IpTokyo, "d2", None, TRUE),
     LoginBody(IpTokyo, "d2", "d1", TRUE),
     LoginBody(IpTokyo, "d2", "d1", FALSE),
     LoginBody(IpPrivate, None, "stale", TRUE)}

ConfigBodies ==
    {[set |-> [step_up_threshold |-> 95, hard_deny_threshold |-> 40],
      nulls |-> {}]}

TxAmounts == {20, 5000}
TxCategories == {"food"}
TxMerchants == {None, "Cafe"}

Idle == [op |-> "init", l |-> NewLocals(LoginBody(IpPrivate, None, None, FALSE))]

NoScore ==
    [stage |-> "off", f |-> ZeroFeatures, cfg |-> DefaultConfig, prior |-> 0,
     first_seen |-> NoTime,
     flags |-> [ti_bad_ip |-> FALSE, ti_tor_exit |-> FALSE,
                ti_bad_asn |-> FALSE, ti_disposable_email |-> FALSE,
                ti_breached_cred |-> FALSE],
     linear |-> 0, post |-> 0, fused |-> 0]

InitDb(domain) ==
    [user |-> [failed_attempts |-> 0, lock_until |-> NoTime,
               email_domain |-> domain],
     login_events |-> <<>>, devices |-> EmptyMap, user_intel |-> EmptyMap,
     transactions |-> <<>>]

InitTI ==
    reload([enabled |-> TRUE, ip_bad |-> {}, ip_tor |-> {}, asn_bad |-> {},
            bad_domains |-> {}, cache |-> EmptyMap],
           [bad |-> {IpTokyo}, tor |-> {}, asn |-> {}])

Procs == {1, 2}

Init ==
    /\ db = InitDb("corp.example")
    /\ CONFIG = DefaultConfig
    /\ RISK = [step_up |-> DefaultConfig.step_up_threshold,
               hard_deny |-> DefaultConfig.hard_deny_threshold]
    /\ TI = InitTI
    /\ tick = 0
    /\ last = Idle
    /\ sc = NoScore
    /\ loc = [p \in Procs |-> Idle.l]
    /\ db0 = db

\* POST /auth/login with one of the requests in `bodies`, while the
\* account has fewer than `max` login events
LoginUpTo(bodies, max) ==
    \E body \in bodies :
        LET r == login(db, TI, CONFIG, RISK, body, Now)
        IN  /\ Len(db.login_events) < max
            /\ db' = r.db
            /\ TI' = IF r.l.status \in {"hard_deny", "ok"}
                     THEN lookup_ip_state(TI, body.ip) ELSE TI
            /\ last' = [op |-> "login", l |-> r.l]
            /\ UNCHANGED <<CONFIG, RISK, tick, sc, loc, db0>>

LoginRequest(bodies) == LoginUpTo(bodies, MaxEvents)

Login == LoginRequest(LoginBodies)

TrustDevice ==
    \E d \in Devices :
        /\ db' = trust_device(db, d)
        /\ last' = [Idle EXCEPT !.op = "trust_device"]
        /\ UNCHANGED <<CONFIG, RISK, TI, tick, sc, loc, db0>>

BindDevice ==
    \E d \in Devices :
        /\ db' = bind_device(db, d)
        /\ last' = Idle
        /\ UNCHANGED <<CONFIG, RISK, TI, tick, sc, loc, db0>>

UnbindDevice ==
    \E d \in Devices :
        /\ db' = unbind_device(db, d)
        /\ last' = Idle
        /\ UNCHANGED <<CONFIG, RISK, TI, tick, sc, loc, db0>>

PutRiskConfig ==
    \E body \in ConfigBodies :
        LET r == put_risk_config(CONFIG, RISK, body)
        IN  /\ CONFIG' = r.cfg
            /\ RISK' = r.risk
            /\ last' = Idle
            /\ UNCHANGED <<db, TI, tick, sc, loc, db0>>

Tick ==
    /\ tick < MaxTick
    /\ tick' = tick + 1
    /\ last' = Idle
    /\ UNCHANGED <<db, CONFIG, RISK, TI, sc, loc, db0>>

Next ==
    \/ Login
    \/ TrustDevice
    \/ BindDevice
    \/ UnbindDevice
    \/ PutRiskConfig
    \/ Tick

Spec == Init /\ [][Next]_vars


(***************************************************************************)
(* The scoring pipeline on its own: linear_score, then apply_post_rules,   *)
(* then the fusion, each stage handing on its score only.                  *)
(***************************************************************************)
ScoreNow == 200000          \* the instant `now` of the pipeline runs
MaxFailsSample == 2         \* consecutive_fails values 0..MaxFailsSample
MaxPriorSample == 1         \* prior_successes values 0..MaxPriorSample

AllWeights(w) ==
    [k \in FeatureNames \cup {"bias"} |-> w]

WeightSamples ==
    {DefaultWeights, AllWeights(900), AllWeights(-900), [bias |-> 0]}

ScaleSamples == {-300, 100, 1000}
InterceptSamples == {-2000, 0, 2000}

ScoreConfigs ==
    {[DefaultConfig EXCEPT !.weights = w, !.scale = sc_, !.intercept = ic] :
        w \in WeightSamples, sc_ \in ScaleSamples, ic \in InterceptSamples}

\* the feature vectors login_features can return: new/rare city and
\* odd/uncommon hour exclude each other
FeatureSamples ==
    {[new_device |-> a[1], untrusted_device |-> a[2], ip_changed |-> a[3],
      new_city |-> IF c = 1 THEN 1 ELSE 0, rare_city |-> IF c = 2 THEN 1 ELSE 0,
      odd_hour |-> IF h = 1 THEN 1 ELSE 0,
      uncommon_hour |-> IF h = 2 THEN 1 ELSE 0,
      impossible_travel |-> a[4], consecutive_fails |-> n] :
        a \in [1..4 -> {0, 1}], c \in 0..2, h \in 0..2,
        n \in 0..MaxFailsSample}

\* minutes between the device's first sighting and now (negative: a clock
\* that went backwards)
AgeSamples == {-1440, 0, 1440, 43200, 64800}
FirstSeenSamples == {NoTime} \cup {ScoreNow - a : a \in AgeSamples}

FlagSamples ==
    [{"ti_bad_ip", "ti_tor_exit", "ti_bad_asn", "ti_disposable_email",
      "ti_breached_cred"} -> BOOLEAN]

InitScore ==
    /\ db = InitDb("corp.example")
    /\ CONFIG = DefaultConfig
    /\ RISK = [step_up |-> DefaultConfig.step_up_threshold,
               hard_deny |-> DefaultConfig.hard_deny_threshold]
    /\ TI = InitTI
    /\ tick = 0
    /\ last = Idle
    /\ \E f \in FeatureSamples, cfg \in ScoreConfigs :
           sc = [NoScore EXCEPT !.stage = "input", !.f = f, !.cfg = cfg]
    /\ loc = [p \in Procs |-> Idle.l]
    /\ db0 = db

ScoreLinear ==
    /\ sc.stage = "input"
    /\ sc' = [sc EXCEPT !.stage = "linear",
                        !.linear = linear_score(sc.f, sc.cfg)]
    /\ UNCHANGED <<db, CONFIG, RISK, TI, tick, last, loc, db0>>

ScorePost ==
    /\ sc.stage = "linear"
    /\ \E prior \in 0..MaxPriorSample, fs \in FirstSeenSamples :
           sc' = [NoScore EXCEPT
                    !.stage = "post", !.linear = sc.linear, !.prior = prior,
                    !.first_seen = fs,
                    !.post = apply_post_rules(sc.linear, prior, fs, ScoreNow)]
    /\ UNCHANGED <<db, CONFIG, RISK, TI, tick, last, loc, db0>>

ScoreFuse ==
    /\ sc.stage = "post"
    /\ \E flags \in FlagSamples :
           sc' = [sc EXCEPT !.stage = "fused", !.flags = flags,
                            !.fused = Fuse(sc.post, TiExtra(flags))]
    /\ UNCHANGED <<db, CONFIG, RISK, TI, tick, last, loc, db0>>

NextScore == ScoreLinear \/ ScorePost \/ ScoreFuse

SpecScore == InitScore /\ [][NextScore]_vars

(***************************************************************************)
(* Claims.                                                                 *)
(***************************************************************************)

\* C2: the score is an integer within 0..100 after linear_score, after
\* apply_post_rules and after the threat-intelligence fusion, for every
\* feature vector, configuration, prior-success count, first-seen date and
\* combination of threat-intelligence flags.
C2_ScoreInRange ==
    /\ sc.stage \in {"linear", "post", "fused"} => sc.linear \in 0..100
    /\ sc.stage \in {"post", "fused"} => sc.post \in 0..100
    /\ sc.stage = "fused" => sc.fused \in 0..100

\* C2 witness: a fusion whose uncapped sum exceeds 100
C2_Witness ==
    /\ sc.stage = "fused"
    /\ sc.post + TiExtra(sc.flags) > 100
    /\ sc.fused = 100

\* C4: with no prior successful login the calibrated score is at most 55,
\* with or without a known first-seen date of the device.
C4_ColdStartCap ==
    (sc.stage \in {"post", "fused"} /\ sc.prior = 0) => sc.post <= ColdStartCap

\* C4 witness: a linear score above the cap is calibrated for an account
\* without prior success and a device first seen today
C4_Witness ==
    /\ sc.stage = "post"
    /\ sc.prior = 0
    /\ sc.linear > ColdStartCap
    /\ sc.first_seen = ScoreNow
    /\ sc.post = ColdStartCap


(***************************************************************************)
(* Claims about the login handler.                                         *)
(***************************************************************************)
Scored(l) == l.status \in {"hard_deny", "ok"}

\* the login columns of a profile row
LoginProfile(intel) ==
    [login_hours_hist |-> intel.login_hours_hist,
     login_cities |-> intel.login_cities,
     device_trust |-> intel.device_trust]

\* login events in non-decreasing order of ts
TimeOrdered(events) ==
    \A i, j \in 1..Len(events) : i < j => events[i].ts <= events[j].ts

\* C1: a login attempt with a correct password on an account whose history
\* holds no successful login is never rejected as HARD_DENY, whatever the
\* fused score, the thresholds and the failed attempts before it.
C1_NoHardDenyWithoutSuccess ==
    [][(/\ last'.op = "login"
        /\ last'.l.body.password_ok
        /\ CountSuccess(db.login_events) = 0)
       => last'.l.status # "hard_deny"]_vars

\* C1 witness: after a failed attempt, a first successful login went through
\* with a fused score at or above the hard-deny threshold
C1_Witness ==
    /\ last.op = "login"
    /\ last.l.status = "ok"
    /\ Len(last.l.recent) > 0
    /\ CountSuccess(last.l.recent) = 0
    /\ last.l.extra > 0
    /\ last.l.total_score >= RISK.hard_deny

\* C3: an attempt that passes the password check is HARD_DENY exactly when
\* the fused score reaches the hard-deny threshold and the account has a
\* prior success; otherwise it succeeds, with step-up exactly when the score
\* reaches the step-up threshold, and plain ALLOW otherwise.
C3_DecisionRule ==
    [][last'.op = "login" =>
        LET l == last'.l
            had == CountSuccess(db.login_events) >= 1
            deny == l.total_score >= RISK.hard_deny /\ had
        IN  /\ (l.body.password_ok /\ l.status # "locked") => Scored(l)
            /\ Scored(l) =>
                 /\ l.decision \in {"HARD_DENY", "STEP_UP", "ALLOW"}
                 /\ (l.status = "hard_deny") <=> deny
                 /\ (l.decision = "HARD_DENY") <=> deny
                 /\ (l.decision = "STEP_UP") <=>
                        (~deny /\ l.total_score >= RISK.step_up)
                 /\ (l.decision = "ALLOW") <=>
                        (~deny /\ l.total_score < RISK.step_up)]_vars

\* C3 witness: with stepUpThreshold > hardDenyThreshold, an attempt scoring
\* between the two is hard-denied
C3_Witness ==
    /\ last.op = "login"
    /\ last.l.status = "hard_deny"
    /\ RISK.step_up > RISK.hard_deny
    /\ last.l.total_score < RISK.step_up

\* C5: the feature vector of an attempt is computed from the profile as it
\* stood before the attempt began (no write caused by the attempt itself,
\* binding-token redemption included, precedes its scoring).
C5_ScoredOnPriorProfile ==
    [][(last'.op = "login" /\ Scored(last'.l))
       => LoginProfile(last'.l.profile_read) = LoginProfile(IntelOf(db))]_vars

\* C7: an attempt that ends in a failed password check or in HARD_DENY
\* appends exactly one event with success = false and its outcome, and every
\* later scoring reads the whole time-ordered history, that event included.
C7_RejectionsRecorded ==
    [][last'.op = "login" =>
        LET l == last'.l
            old == db.login_events
            new == db'.login_events
        IN  /\ l.status \in {"bad_password", "hard_deny"} =>
                 /\ Len(new) = Len(old) + 1
                 /\ SubSeq(new, 1, Len(old)) = old
                 /\ ~new[Len(new)].success
                 /\ new[Len(new)].risk_reason = l.status
            /\ Scored(l) => l.recent = old
            /\ TimeOrdered(new)]_vars

\* C7 witness: a scoring that read a history holding a failed-password event
\* and ended in HARD_DENY itself
C7_Witness ==
    /\ last.op = "login"
    /\ last.l.status = "hard_deny"
    /\ \E i \in 1..Len(last.l.recent) :
           last.l.recent[i].risk_reason = "bad_password"
    /\ db.login_events[Len(db.login_events)].risk_reason = "hard_deny"

\* C8: after every finalized attempt (success, failed password, hard deny)
\* the hour histogram at the attempt's hour and the visit count of the
\* resolved city have each increased by exactly one.
C8_ProfileUpdatedOnEveryOutcome ==
    [][(last'.op = "login"
        /\ last'.l.status \in {"ok", "bad_password", "hard_deny"})
       => LET h == HourOf(Now)
              city == _geo_for_ip(last'.l.body.ip)
              old == IntelOf(db)
              new == IntelOf(db')
          IN  /\ new.login_hours_hist[h] = old.login_hours_hist[h] + 1
              /\ MapGet(new.login_cities, city, 0)
                   = MapGet(old.login_cities, city, 0) + 1]_vars

\* C9: a device's trusted flag changes only through the explicit trust
\* action for that device or a successful redemption of its binding token;
\* a failed-password attempt, a hard-denied login, a login without token,
\* bind and unbind leave every trusted flag alone.
C9_TrustChangesOnlyByTrustOrRedemption ==
    [][\A d \in DOMAIN db.devices :
          (d \in DOMAIN db'.devices
           /\ db'.devices[d].trusted # db.devices[d].trusted)
          => \/ (last'.op = "trust_device" /\ db' = trust_device(db, d))
             \/ (/\ last'.op = "login"
                 /\ last'.l.bound = d
                 /\ last'.l.status = "ok")]_vars


(***************************************************************************)
(* The learned profile under logins, transactions and profile reads.       *)
(***************************************************************************)
AddTx ==
    \E amount \in TxAmounts, category \in TxCategories,
       merchant \in TxMerchants :
        /\ Len(db.transactions) < MaxTx
        /\ db' = add_tx(db, amount, category, merchant)
        /\ last' = Idle
        /\ UNCHANGED <<CONFIG, RISK, TI, tick, sc, loc, db0>>

IntelProfile ==
    /\ db' = intel_profile(db)
    /\ last' = Idle
    /\ UNCHANGED <<CONFIG, RISK, TI, tick, sc, loc, db0>>

\* the logins of the profile runs: a success from each city and a failure
ProfileBodies ==
    {LoginBody(IpLondon, "d1", None, TRUE),
     LoginBody(IpLondon, "d1", None, FALSE),
     LoginBody(IpTokyo, "d2", None, TRUE)}

ProfileLogin == LoginRequest(ProfileBodies)

NextProfile == ProfileLogin \/ AddTx \/ IntelProfile \/ Tick

SpecProfile == Init /\ [][NextProfile]_vars

\* C10: every account's profile has a login-hour histogram with exactly the
\* 24 keys 0..23, and every hour, city, merchant and per-category count in
\* it is a non-negative integer.
C10_ProfileShape ==
    HasIntel(db) =>
        LET intel == db.user_intel[UserId]
        IN  /\ DOMAIN intel.login_hours_hist = Hours
            /\ \A h \in Hours : intel.login_hours_hist[h] \in Nat
            /\ \A c \in DOMAIN intel.login_cities :
                   intel.login_cities[c] \in Nat
            /\ \A m \in DOMAIN intel.tx_merchant_counts :
                   intel.tx_merchant_counts[m] \in Nat
            /\ \A c \in DOMAIN intel.tx_category_stats :
                   intel.tx_category_stats[c].n \in Nat

\* C10 witness: a profile that has learned a login and a transaction
C10_Witness ==
    /\ HasIntel(db)
    /\ \E h \in Hours : db.user_intel[UserId].login_hours_hist[h] > 0
    /\ \E c \in DOMAIN db.user_intel[UserId].login_cities :
           db.user_intel[UserId].login_cities[c] > 0
    /\ \E m \in DOMAIN db.user_intel[UserId].tx_merchant_counts :
           db.user_intel[UserId].tx_merchant_counts[m] > 0
    /\ \E c \in DOMAIN db.user_intel[UserId].tx_category_stats :
           db.user_intel[UserId].tx_category_stats[c].n > 0

(***************************************************************************)
(* Two login requests of the same account served concurrently: each        *)
(* request advances one statement group at a time.                         *)
(***************************************************************************)
ConcBodies ==
    {LoginBody(IpLondon, "d1", None, TRUE),
     LoginBody(IpTokyo, "d2", None, TRUE)}

\* the account after a first successful login
DbAfterFirstLogin ==
    login(InitDb("corp.example"), InitTI, DefaultConfig,
          [step_up |-> DefaultConfig.step_up_threshold,
           hard_deny |-> DefaultConfig.hard_deny_threshold],
          LoginBody(IpLondon, "d1", None, TRUE), TimeAt(0)).db

InitConc ==
    /\ db \in {InitDb("corp.example"), DbAfterFirstLogin}
    /\ db0 = db
    /\ CONFIG = DefaultConfig
    /\ RISK = [step_up |-> DefaultConfig.step_up_threshold,
               hard_deny |-> DefaultConfig.hard_deny_threshold]
    /\ TI = InitTI
    /\ tick = 0
    /\ last = Idle
    /\ sc = NoScore
    /\ loc \in [Procs -> {NewLocals(b) : b \in ConcBodies}]

\* request p executes its next statement group
Step(p) ==
    /\ ~Finished(loc[p])
    /\ LET r == login_step(db, TI, CONFIG, RISK, loc[p], Now)
       IN  /\ db' = r.db
           /\ loc' = [loc EXCEPT ![p] = r.l]
           /\ TI' = IF loc[p].status = "score"
                    THEN lookup_ip_state(TI, loc[p].body.ip) ELSE TI
    /\ UNCHANGED <<CONFIG, RISK, tick, last, sc, db0>>

NextConc == \E p \in Procs : Step(p)

SpecConc == InitConc /\ [][NextConc]_vars

\* the database after request p, then request q, each served alone
SerialResult(p, q) ==
    login(login(db0, TI, CONFIG, RISK, loc[p].body, Now).db,
          TI, CONFIG, RISK, loc[q].body, Now).db

\* C6: two concurrent attempts on one account never interleave; profile and
\* history end as after some serial order of the two, so no histogram or
\* city increment is lost.
C6_Serializable ==
    (\A p \in Procs : Finished(loc[p]))
        => db \in {SerialResult(1, 2), SerialResult(2, 1)}


(***************************************************************************)
(* anomaly_engine: the train-on-call facade.  A history is kept by its     *)
(* number of rows (all with finite amounts, as the loader reads them from  *)
(* the database); the fitted models are kept by what their output depends  *)
(* on: the isolation forest is seeded (random_state = 42), the autoencoder *)
(* draws its initial weights and its batch order from an unseeded          *)
(* generator.                                                              *)
(***************************************************************************)
IF_MIN_TRAIN_ROWS == 10
AE_MIN_TRAIN_ROWS == 40

MaxHistRows == 41

\* the newest rows: finite amounts and the float NaN a JSON body can carry
NewestRows ==
    {[amount |-> 20, finite |-> TRUE], [amount |-> 5000, finite |-> TRUE],
     [amount |-> 0, finite |-> FALSE]}

\* force_method as the callers pass it
Methods == {"iforest", "autoenc", "auto", "other"}

\* the draws of torch's unseeded random generator
Rngs == {0, 1}

\* importing the module: without torch, `class _AEDataset(tud.Dataset)`
\* refers to a name the failed import never bound
ImportAnomalyEngine(torch_installed) ==
    IF torch_installed THEN "ok" ELSE "NameError"

Raised(e) == [raised |-> TRUE, error |-> e]

Returned(v) == [raised |-> FALSE, value |-> v]

\* IsolationForestDetector.train: the count returned (the model is fitted
\* exactly when the count is positive)
IsolationForestDetector_train(n) == IF n < IF_MIN_TRAIN_ROWS THEN 0 ELSE n

\* int(np.clip((0.5 - raw) * 100.0, 0.0, 100.0)) of the seeded forest
IForestScore(n, row) == (n + row.amount) % 101

\* IsolationForestDetector.score_one on the model train(n) left
IsolationForestDetector_score_one(n, row) ==
    IF IsolationForestDetector_train(n) = 0
    THEN Returned([score |-> 0, details |-> {"reason"},
                   reason |-> "model_not_trained"])
    ELSE IF ~row.finite THEN Raised("ValueError")
    ELSE Returned([score |-> IForestScore(n, row), details |-> {"raw_score"},
                   reason |-> None])

\* AutoencoderDetector.train
AutoencoderDetector_train(n, torch, ae_error) ==
    IF ~torch THEN Raised("RuntimeError")
    ELSE IF n < AE_MIN_TRAIN_ROWS THEN Returned(0)
    ELSE IF ae_error THEN Raised("training error")
    ELSE Returned(n)

\* the 0..100 mapping of the reconstruction error of a model fitted from rng
AEScore(n, row, rng) == (n + row.amount + 37 * rng) % 101

\* AutoencoderDetector.score_one on the model train(n) left
AutoencoderDetector_score_one(n, row, torch, rng) ==
    IF ~torch THEN Raised("RuntimeError")
    ELSE IF n < AE_MIN_TRAIN_ROWS
    THEN Returned([score |-> 0, details |-> {"reason"},
                   reason |-> "model_not_trained"])
    ELSE IF ~row.finite THEN Raised("ValueError")
    ELSE Returned([score |-> AEScore(n, row, rng),
                   details |-> {"recon_error", "p95", "p99", "median"},
                   reason |-> None])

\* the tuple train_and_score returns
AnomalyResult(used, n_train, s) ==
    Returned([used |-> used, score |-> s.score, details |-> s.details,
              reason |-> s.reason, n_train |-> n_train])

\* _try_iforest
try_iforest(n, row) ==
    LET s == IsolationForestDetector_score_one(n, row)
    IN  IF s.raised THEN s
        ELSE AnomalyResult("iforest", IsolationForestDetector_train(n), s.value)

\* _try_autoenc
try_autoenc(n, row, torch, ae_error, rng) ==
    LET t == AutoencoderDetector_train(n, torch, ae_error)
        s == AutoencoderDetector_score_one(n, row, torch, rng)
    IN  IF t.raised THEN t
        ELSE IF s.raised THEN s
        ELSE AnomalyResult("autoenc", t.value, s.value)

\* details = {"fallback": "iforest", "reason": str(e), **details}
Annotated(r, e) ==
    IF r.raised THEN r
    ELSE Returned([r.value EXCEPT
             !.details = @ \cup {"fallback", "reason"},
             !.reason = IF "reason" \in r.value.details THEN @ ELSE e])

\* AnomalyDetector.train_and_score on a fresh detector
train_and_score(n, row, method, torch, ae_error, rng) ==
    IF method = "iforest" THEN try_iforest(n, row)
    ELSE IF method = "autoenc"
    THEN LET a == try_autoenc(n, row, torch, ae_error, rng)
         IN  IF a.raised THEN Annotated(try_iforest(n, row), a.error)
             ELSE IF a.value.n_train = 0 THEN try_iforest(n, row)
             ELSE a
    ELSE IF torch /\ n >= AE_MIN_TRAIN_ROWS
    THEN LET a == try_autoenc(n, row, torch, ae_error, rng)
         IN  IF a.raised THEN Annotated(try_iforest(n, row), a.error) ELSE a
    ELSE try_iforest(n, row)

\* a call of train_and_score in a process that imported the module
AnomalyCall(n, row, method, torch, ae_error, rng) ==
    IF ImportAnomalyEngine(torch) # "ok"
    THEN Raised(ImportAnomalyEngine(torch))
    ELSE train_and_score(n, row, method, torch, ae_error, rng)

NoResult == Raised("not called")

InitAnomaly ==
    /\ db = InitDb("corp.example")
    /\ db0 = db
    /\ CONFIG = DefaultConfig
    /\ RISK = [step_up |-> DefaultConfig.step_up_threshold,
               hard_deny |-> DefaultConfig.hard_deny_threshold]
    /\ TI = InitTI
    /\ tick = 0
    /\ last = Idle
    /\ loc = [p \in Procs |-> Idle.l]
    /\ \E n \in 0..MaxHistRows, row \in NewestRows, method \in Methods,
          torch \in BOOLEAN, ae_error \in BOOLEAN :
           sc = [stage |-> "anomaly", n |-> n, row |-> row, method |-> method,
                 torch |-> torch, ae_error |-> ae_error,
                 first |-> NoResult, second |-> NoResult]

\* one execution of train_and_score on a fresh detector
AnomalyFirst ==
    /\ sc.stage = "anomaly"
    /\ \E rng \in Rngs :
           sc' = [sc EXCEPT !.stage = "scored",
                     !.first = AnomalyCall(sc.n, sc.row, sc.method, sc.torch,
                                           sc.ae_error, rng)]
    /\ UNCHANGED <<db, CONFIG, RISK, TI, tick, last, loc, db0>>

\* an independent execution on the same inputs
AnomalySecond ==
    /\ sc.stage = "scored"
    /\ \E rng \in Rngs :
           sc' = [sc EXCEPT !.stage = "rescored",
                     !.second = AnomalyCall(sc.n, sc.row, sc.method, sc.torch,
                                            sc.ae_error, rng)]
    /\ UNCHANGED <<db, CONFIG, RISK, TI, tick, last, loc, db0>>

NextAnomaly == AnomalyFirst \/ AnomalySecond

SpecAnomaly == InitAnomaly /\ [][NextAnomaly]_vars

\* the minimum number of rows of the backend a result came from
MinRowsOf(used) ==
    IF used = "autoenc" THEN AE_MIN_TRAIN_ROWS ELSE IF_MIN_TRAIN_ROWS

\* C11: train_and_score raises no exception for any history, new
\* transaction and method, and with fewer rows than the backend's minimum
\* it returns score 0, trained count 0 and an explicit reason.
C11_FacadeTotal ==
    sc.stage = "scored" =>
        /\ ~sc.first.raised
        /\ sc.n < MinRowsOf(sc.first.value.used) =>
             /\ sc.first.value.score = 0
             /\ sc.first.value.n_train = 0
             /\ "reason" \in sc.first.value.details

\* C12: a forced autoencoder whose training yields zero rows or errors
\* (torch missing included) returns the isolation forest's result with
\* method iforest and details annotated with the fallback and its reason.
C12_ForcedFallbackAnnotated ==
    (/\ sc.stage = "scored"
     /\ sc.method = "autoenc"
     /\ (sc.n < AE_MIN_TRAIN_ROWS \/ sc.ae_error \/ ~sc.torch))
    => /\ ~sc.first.raised
       /\ sc.first.value.used = "iforest"
       /\ {"fallback", "reason"} \subseteq sc.first.value.details

\* C20: for fixed history, new transaction and method, two independent
\* executions return the same backend, score and trained count.
C20_Deterministic ==
    sc.stage = "rescored" =>
        /\ sc.first.raised = sc.second.raised
        /\ ~sc.first.raised =>
             /\ sc.first.value.used = sc.second.value.used
             /\ sc.first.value.score = sc.second.value.score
             /\ sc.first.value.n_train = sc.second.value.n_train


\* C13: the final login score is min(100, calibrated score + the points of
\* exactly the flags that are set: bad IP 30, Tor exit 25, bad ASN 15,
\* disposable e-mail 15, breached credential 0), whatever the weights.
C13_FusionValue ==
    sc.stage = "fused" =>
        LET points ==
                  (IF sc.flags.ti_bad_ip THEN 30 ELSE 0)
                + (IF sc.flags.ti_tor_exit THEN 25 ELSE 0)
                + (IF sc.flags.ti_bad_asn THEN 15 ELSE 0)
                + (IF sc.flags.ti_disposable_email THEN 15 ELSE 0)
                + (IF sc.flags.ti_breached_cred THEN 0 ELSE 0)
        IN  /\ sc.fused = Min(100, sc.post + points)
            /\ (sc.flags.ti_bad_ip /\ sc.post >= 70) => sc.fused = 100

\* C13 witness: calibrated 50 with only the bad-IP flag gives exactly 80
C13_Witness ==
    /\ sc.stage = "fused"
    /\ sc.post = 50
    /\ sc.flags.ti_bad_ip
    /\ ~sc.flags.ti_tor_exit /\ ~sc.flags.ti_bad_asn
    /\ ~sc.flags.ti_disposable_email /\ ~sc.flags.ti_breached_cred
    /\ sc.fused = 80

(***************************************************************************)
(* The city features as each caller of the feature extractor obtains them. *)
(***************************************************************************)
\* a public address the geo provider cannot place
IpUnresolved == "203.0.113.9"

\* the variables no scoring call touches
QuietInit ==
    /\ db = InitDb("corp.example")
    /\ db0 = db
    /\ CONFIG = DefaultConfig
    /\ RISK = [step_up |-> DefaultConfig.step_up_threshold,
               hard_deny |-> DefaultConfig.hard_deny_threshold]
    /\ TI = InitTI
    /\ tick = 0
    /\ last = Idle
    /\ loc = [p \in Procs |-> Idle.l]

\* xai_shap._geo_valid on what _geo_for_ip returns
_geo_valid(ip) == _geo_for_ip(ip) # "Unknown"

\* the ip_city argument each caller hands to score_login
CallerCity(caller, ip) ==
    IF caller = "explain_login"
    THEN (IF _geo_valid(ip) THEN _geo_for_ip(ip) ELSE "")
    ELSE _geo_for_ip(ip)

\* the features a caller obtains for a candidate from `ip`
CallerFeatures(caller, rows, login_cities, ip) ==
    login_features(
        Append(rows, LoginEvent(ScoreNow, ip, "d1", TRUE, 0, "ok")),
        login_cities, ZeroHist, EmptyMap, CallerCity(caller, ip),
        _is_private(ip), "d1", TRUE, FALSE, 0, ScoreNow, NoSpeed).f

Callers == {"login", "explain_login"}

CityIps == {IpPrivate, IpLondon, IpTokyo, IpUnresolved}

MaxCityCount == 3

\* histories before the candidate: none, a failure, a success, both
CityHistories ==
    {<<>>,
     <<LoginEvent(0, IpLondon, "d1", FALSE, 0, "bad_password")>>,
     <<LoginEvent(0, IpLondon, "d1", TRUE, 20, "ok")>>,
     <<LoginEvent(0, IpLondon, "d1", TRUE, 20, "ok"),
       LoginEvent(60, IpLondon, "d1", FALSE, 0, "bad_password")>>}

\* login_cities maps: empty, or London seen 0..MaxCityCount times
CityMaps ==
    {EmptyMap} \cup {MapPut(EmptyMap, "London, GB", c) : c \in 0..MaxCityCount}

InitCity ==
    /\ QuietInit
    /\ \E caller \in Callers, ip \in CityIps, rows \in CityHistories,
          cities \in CityMaps :
           sc = [stage |-> "city", caller |-> caller, ip |-> ip,
                 rows |-> rows, cities |-> cities, f |-> ZeroFeatures]

ExtractFeatures ==
    /\ sc.stage = "city"
    /\ sc' = [sc EXCEPT !.stage = "extracted",
                !.f = CallerFeatures(sc.caller, sc.rows, sc.cities, sc.ip)]
    /\ UNCHANGED <<db, CONFIG, RISK, TI, tick, last, loc, db0>>

NextCity == ExtractFeatures

SpecCity == InitCity /\ [][NextCity]_vars

\* C14: in every caller new_city and rare_city are both 0 when the address
\* is private, the location is unresolved, or the history before the
\* candidate holds no success; otherwise new_city = 1 iff the city's count
\* is 0 and rare_city = 1 iff it is 1 or 2, never both.
C14_CityFeatures ==
    sc.stage = "extracted" =>
        LET resolved == ~_is_private(sc.ip) /\ _geo_for_ip(sc.ip) # "Unknown"
            count == MapGet(sc.cities, _geo_for_ip(sc.ip), 0)
        IN  IF ~resolved \/ CountSuccess(sc.rows) = 0
            THEN sc.f.new_city = 0 /\ sc.f.rare_city = 0
            ELSE /\ (sc.f.new_city = 1) <=> (count = 0)
                 /\ (sc.f.rare_city = 1) <=> (count \in {1, 2})
                 /\ ~(sc.f.new_city = 1 /\ sc.f.rare_city = 1)


(***************************************************************************)
(* The process-wide RiskConfig under PUT /risk/config, GET /risk/config    *)
(* and the federated weight apply, and linear_score under the result.      *)
(***************************************************************************)
\* request bodies of PUT /risk/config after model_to_dict(exclude_unset):
\* `set` holds the fields with a value, `nulls` the fields sent as null
RiskConfigBodies ==
    {[set |-> [scale |-> -100], nulls |-> {}],
     [set |-> [intercept |-> 50], nulls |-> {}],
     [set |-> [weights |-> [new_device |-> 300]], nulls |-> {"scale"}],
     [set |-> [step_up_threshold |-> 70], nulls |-> {"hard_deny_threshold"}],
     [set |-> [hard_deny_threshold |-> 150], nulls |-> {}],
     [set |-> [step_up_threshold |-> -5], nulls |-> {}],
     [set |-> EmptyMap, nulls |-> {"scale"}],
     [set |-> EmptyMap, nulls |-> {"weights"}]}

\* fed.FEAT_NAMES
FEAT_NAMES == FeatureNames \cup {"bias"}

\* FED_STATE["weights"] after a simulation, in hundredths
FedWeights ==
    {[k \in FEAT_NAMES |-> 0],
     [k \in FEAT_NAMES |-> IF k = "bias" THEN -100 ELSE 50]}

\* sim_apply_weights: merged weights handed to update_config
sim_apply_weights(cfg, new_w) ==
    update_config(cfg,
        [set |-> [weights |->
                    MergeWeights(cfg.weights,
                                 [k \in FEAT_NAMES |-> MapGet(new_w, k, 0)])],
         nulls |-> {}]).cfg

\* the feature vectors a pair starts from
PairFeatures ==
    {ZeroFeatures, [ZeroFeatures EXCEPT !.consecutive_fails = 2]}

InitConfig ==
    /\ QuietInit
    /\ sc = [stage |-> "start"]

\* PUT /risk/config
PutConfig ==
    \E body \in RiskConfigBodies :
        LET r == put_risk_config(CONFIG, RISK, body)
        IN  /\ CONFIG' = r.cfg
            /\ RISK' = r.risk
            /\ sc' = [stage |-> "put", body |-> body, raised |-> r.raised]
            /\ UNCHANGED <<db, TI, tick, last, loc, db0>>

\* GET /risk/config
GetConfig ==
    /\ sc' = [stage |-> "get", returned |-> CONFIG]
    /\ UNCHANGED <<db, CONFIG, RISK, TI, tick, last, loc, db0>>

\* POST /fed/sim/apply
FedApply ==
    \E new_w \in FedWeights :
        /\ CONFIG' = sim_apply_weights(CONFIG, new_w)
        /\ sc' = [stage |-> "fed"]
        /\ UNCHANGED <<db, RISK, TI, tick, last, loc, db0>>

\* linear_score under the current configuration on two vectors that differ
\* in feature k only
ScorePair ==
    \E f \in PairFeatures, k \in FeatureNames :
        /\ sc' = [stage |-> "pair", k |-> k, w |-> WeightOf(CONFIG, k),
                  lo |-> linear_score(f, CONFIG),
                  hi |-> linear_score([f EXCEPT ![k] = @ + 1], CONFIG)]
        /\ UNCHANGED <<db, CONFIG, RISK, TI, tick, last, loc, db0>>

NextConfig == PutConfig \/ GetConfig \/ FedApply \/ ScorePair

SpecConfig == InitConfig /\ [][NextConfig]_vars

\* C15: under every RiskConfig reachable through update_config, raising one
\* feature with a non-negative weight never lowers linear_score.
C15_Monotone ==
    (sc.stage = "pair" /\ sc.w >= 0) => sc.hi >= sc.lo

\* a value float() or int() raises on
Malformed(body) == body.nulls \ {"weights"} # {}

\* C17: an update with a malformed value is rejected and leaves every field
\* of RiskConfig and the thresholds login uses as they were.
C17_RejectedUpdateKeepsConfig ==
    [][(sc'.stage = "put" /\ Malformed(sc'.body))
       => (sc'.raised /\ CONFIG' = CONFIG /\ RISK' = RISK)]_vars

\* C18: after any sequence of configuration calls the weights contain the
\* key bias and both thresholds are within 0..100.
C18_ConfigInvariant ==
    /\ "bias" \in DOMAIN CONFIG.weights
    /\ CONFIG.step_up_threshold \in 0..100
    /\ CONFIG.hard_deny_threshold \in 0..100


(***************************************************************************)
(* apply_post_rules over the age of the device.                            *)
(***************************************************************************)
MaxDays == 90

InitDecay ==
    /\ QuietInit
    /\ \E total \in 0..100, prior \in 0..1 :
           sc = [stage |-> "age", total |-> total, prior |-> prior,
                 d |-> 0, at |-> 0, next |-> 0]

\* apply_post_rules for a device first seen d days and d + 1 days ago
DecayAt ==
    /\ sc.stage = "age"
    /\ \E d \in 0..MaxDays :
           sc' = [sc EXCEPT
                    !.stage = "decayed", !.d = d,
                    !.at = apply_post_rules(sc.total, sc.prior,
                                            ScoreNow - 1440 * d, ScoreNow),
                    !.next = apply_post_rules(sc.total, sc.prior,
                                              ScoreNow - 1440 * (d + 1),
                                              ScoreNow)]
    /\ UNCHANGED <<db, CONFIG, RISK, TI, tick, last, loc, db0>>

NextDecay == DecayAt

SpecDecay == InitDecay /\ [][NextDecay]_vars

\* C16 as stated: with 0 whole days since first sight the input comes back
\* unchanged, and for d > 0 the returned score is strictly decreasing in d.
C16_DecayStrict ==
    sc.stage = "decayed" =>
        /\ sc.d = 0 => sc.at = sc.total
        /\ sc.d > 0 => sc.next < sc.at

\* C16 amended: with 0 whole days since first sight the cold-start-capped
\* input comes back unchanged; for d > 0 the returned score never exceeds
\* it, is non-increasing in d, is half of it (rounded) at d = 30 and below
\* it from d = 30 on.
C16_DecayMonotone ==
    sc.stage = "decayed" =>
        LET input == IF sc.prior = 0 THEN Min(sc.total, 55) ELSE sc.total
        IN  /\ sc.d = 0 => sc.at = input
            /\ sc.at <= input
            /\ sc.next <= sc.at
            /\ sc.d = 30 => (2 * sc.at) \in {input - 1, input, input + 1}
            /\ (sc.d >= 30 /\ input > 0) => sc.at < input

\* C16 witness: a decayed score that stays the same from day d to day d + 1
C16_Witness ==
    /\ sc.stage = "decayed"
    /\ sc.d > 0
    /\ sc.at < sc.total
    /\ sc.next = sc.at
    /\ sc.at > 0


(***************************************************************************)
(* The contribution trace of linear_score and its parser in the federated  *)
(* simulation.  A string is a sequence of tokens: a name ([a-z_]+), white  *)
(* space, an operator character, a number (in hundredths), the arrow "->", *)
(* and the bar "|" that joins the parts of a reason.  Weights are in       *)
(* thousandths here, so that the two-decimal formatting rounds.            *)
(***************************************************************************)
MaxTraceFails == 3

\* the insertion order of the keys of the feature dict
FeatureOrder ==
    <<"new_device", "untrusted_device", "ip_changed", "new_city", "rare_city",
      "odd_hour", "uncommon_hour", "impossible_travel", "consecutive_fails">>

\* one token of a string: its class, its text, and for a number its value
Tok(t, s, h) == [t |-> t, s |-> s, h |-> h]

\* f"{x:+.2f}" of x given in thousandths: the number in hundredths
Fmt2(x3) == IF x3 >= 0 THEN RoundHalfEven(x3, 10) ELSE 0 - RoundHalfEven(0 - x3, 10)

\* f"{k} × {w:+.2f} -> {v*w:+.2f}"
TracePart(k, w3, v) == <<Tok("name", k, 0), Tok("ws", " ", 0), Tok("op", "×", 0), Tok("ws", " ", 0), Tok("num", "", Fmt2(w3)), Tok("ws", " ", 0), Tok("arrow", "->", 0), Tok("ws", " ", 0), Tok("num", "", Fmt2(v * w3))>>

\* the parts list of linear_score: one part per feature with v != 0, w != 0
RECURSIVE linear_score_parts(_, _, _)
linear_score_parts(features, weights3, i) ==
    IF i > Len(FeatureOrder) THEN <<>>
    ELSE LET k == FeatureOrder[i]
             w == IF k \in DOMAIN weights3 THEN weights3[k] ELSE 0
             v == features[k]
         IN  (IF v # 0 /\ w # 0 THEN <<TracePart(k, w, v)>> ELSE <<>>)
             \o linear_score_parts(features, weights3, i + 1)

\* f"ti_bad_ip +{bump}" appended by the login handler
TiPart(flag, bump) == <<Tok("name", flag, 0), Tok("ws", " ", 0), Tok("num", "", 100 * bump)>>

\* "|".join(parts)
RECURSIVE Join(_)
Join(parts) ==
    IF parts = <<>> THEN <<>>
    ELSE IF Len(parts) = 1 THEN parts[1]
    ELSE parts[1] \o <<Tok("bar", "|", 0)>> \o Join(Tail(parts))

\* the risk_reason the login handler stores
RiskReason(parts, hard) == IF hard THEN <<Tok("name", "hard_deny", 0), Tok("bar", "|", 0)>> \o Join(parts) ELSE Join(parts)

\* reason.split("|")
RECURSIVE Split(_, _)
Split(str, cur) ==
    IF str = <<>> THEN <<cur>>
    ELSE IF Head(str).t = "bar" THEN <<cur>> \o Split(Tail(str), <<>>)
    ELSE Split(Tail(str), Append(cur, Head(str)))

NoWs(piece) == SelectSeq(piece, LAMBDA x : x.t # "ws")

\* _CONTRIB_RE.search(piece): the start of the first match, 0 for none
ContribMatch(piece) ==
    LET p == NoWs(piece)
        ok == {i \in 1..(Len(p) - 4) :
                 /\ p[i].t = "name"
                 /\ p[i + 1].t = "op" /\ p[i + 1].s = "*"
                 /\ p[i + 2].t = "num"
                 /\ p[i + 3].t = "arrow"
                 /\ p[i + 4].t = "num"}
    IN  IF ok = {} THEN 0 ELSE CHOOSE i \in ok : \A j \in ok : i <= j

\* _REASON_RE.search(piece): the first name of the piece, "" for none
FirstName(piece) ==
    LET ix == {i \in 1..Len(piece) : piece[i].t = "name"}
    IN  IF ix = {} THEN "" ELSE piece[CHOOSE i \in ix : \A j \in ix : i <= j].s

\* a recovered feature is its name and its value num / den
RECURSIVE ExtractPieces(_)
ExtractPieces(pieces) ==
    IF pieces = <<>> THEN <<>>
    ELSE LET piece == Head(pieces)
             m == ContribMatch(piece)
             p == NoWs(piece)
         IN  (IF m # 0
                THEN IF p[m + 2].h # 0
                       THEN <<[name |-> p[m].s, num |-> p[m + 4].h, den |-> p[m + 2].h]>>
                       ELSE <<[name |-> p[m].s, num |-> 1, den |-> 1]>>
                ELSE IF FirstName(piece) # ""
                       THEN <<[name |-> FirstName(piece), num |-> 1, den |-> 1]>>
                       ELSE <<>>)
             \o ExtractPieces(Tail(pieces))

_extract_feats(reason_raw) == ExtractPieces(Split(reason_raw, <<>>))

TraceFeatures ==
    {[f EXCEPT !.consecutive_fails = n] :
        f \in {g \in FeatureSamples : g.consecutive_fails = 0},
        n \in 0..MaxTraceFails}

\* weights in thousandths: the defaults' shape, a negative weight, and two
\* weights that two decimals do not hold
TraceWeights ==
    {[k \in FeatureNames |-> 10 * DefaultWeights[k]],
     [k \in FeatureNames |-> IF k = "consecutive_fails" THEN 300 ELSE -900],
     [k \in FeatureNames |-> IF k = "consecutive_fails" THEN 4 ELSE 1234]}

InitTrace ==
    /\ QuietInit
    /\ \E f \in TraceFeatures, w \in TraceWeights :
           sc = [stage |-> "scored", f |-> f, w |-> w, reason |-> <<>>,
                 feats |-> <<>>]

\* the login handler stores the trace of linear_score as the event's reason
StoreReason ==
    /\ sc.stage = "scored"
    /\ \E hard \in BOOLEAN, ti \in {<<>>, <<TiPart("ti_bad_ip", BumpBadIp)>>} :
           sc' = [sc EXCEPT
                    !.stage = "stored",
                    !.reason = RiskReason(linear_score_parts(sc.f, sc.w, 1)
                                          \o ti, hard)]
    /\ UNCHANGED <<db, CONFIG, RISK, TI, tick, last, loc, db0>>

\* the simulation parses the stored reason
ParseReason ==
    /\ sc.stage = "stored"
    /\ sc' = [sc EXCEPT !.stage = "parsed",
                        !.feats = _extract_feats(sc.reason)]
    /\ UNCHANGED <<db, CONFIG, RISK, TI, tick, last, loc, db0>>

NextTrace == StoreReason \/ ParseReason

SpecTrace == InitTrace /\ [][NextTrace]_vars

\* C19: parsing the stored trace recovers, for every feature with non-zero
\* weight and non-zero value, the feature's name and the value that was
\* scored.
C19_TraceRoundTrip ==
    sc.stage = "parsed" =>
        \A k \in FeatureNames :
            (sc.f[k] # 0 /\ sc.w[k] # 0) =>
                \E i \in 1..Len(sc.feats) :
                    /\ sc.feats[i].name = k
                    /\ sc.feats[i].num = sc.f[k] * sc.feats[i].den


(***************************************************************************)
(* Transactions: learning the per-category statistics and the heuristic    *)
(* scorer.  A payload amount is a record: its value in whole units and     *)
(* whether it is a finite float (a JSON body can carry NaN and Infinity).  *)
(***************************************************************************)
MaxLearn == 5

\* _score_tx: the total returned, or the exception raised
_score_tx(intel, payload) ==
    LET cat   == Upper(payload.category)
        merch == IF payload.merchant = None THEN "" ELSE Lower(payload.merchant)
        s     == MapGet(intel.tx_category_stats, cat, NoStats)
        amt3  == 1000 * payload.amount.amount
        \* 0.0 if mad <= 1e-6 else abs(amt - med) / mad, times 12
        z12   == IF s.mad = 0 THEN 0 ELSE (12 * Abs(amt3 - s.median)) \div s.mad
        dev   == IF s.n >= 5 THEN Min(z12, 70) ELSE 0
        seen  == MapGet(intel.tx_merchant_counts, merch, 0)
        pts   == IF merch # "" /\ seen = 0 /\ payload.amount.amount >= 100
                   THEN [new_merchant |-> 20, rare_merchant |-> 0]
                 ELSE IF merch # "" /\ seen <= 2 /\ payload.amount.amount >= 250
                   THEN [new_merchant |-> 0, rare_merchant |-> 10]
                 ELSE [new_merchant |-> 0, rare_merchant |-> 0]
        cur   == IF payload.currency \notin {"SAR", "USD", "EUR", "GBP", "AED"}
                    /\ payload.amount.amount > 0
                   THEN 10 ELSE 0
    IN  IF ~payload.amount.finite /\ s.n >= 5 /\ s.mad # 0
          THEN Raised("int(z * 12) of a non-finite float")
          ELSE Returned([total |-> Min(dev + pts.new_merchant
                                       + pts.rare_merchant + cur, 100),
                         amount_deviation |-> dev,
                         new_merchant |-> pts.new_merchant,
                         rare_merchant |-> pts.rare_merchant,
                         n |-> s.n])

\* TxScoreIn bodies: small, large, zero and non-finite amounts, a known and
\* an unknown merchant, category and currency
TxPayloads ==
    {[amount |-> a, category |-> c, merchant |-> m, currency |-> cu] :
        a \in {[amount |-> 0, finite |-> TRUE], [amount |-> 150, finite |-> TRUE],
               [amount |-> 5000, finite |-> TRUE], [amount |-> 0, finite |-> FALSE]},
        c \in {"food", "TRAVEL"}, m \in {None, "Cafe", "shop"},
        cu \in {"SAR", "XXX"}}

InitTx ==
    /\ QuietInit
    /\ sc = [stage |-> "start", payload |-> CHOOSE p \in TxPayloads : TRUE,
             res |-> NoResult]

\* POST /transactions
LearnTx ==
    /\ Len(db.transactions) < MaxLearn
    /\ \E amount \in TxAmounts, merchant \in TxMerchants :
           db' = add_tx(db, amount, "food", merchant)
    /\ sc' = [sc EXCEPT !.stage = "learned", !.res = NoResult]
    /\ UNCHANGED <<CONFIG, RISK, TI, tick, last, loc, db0>>

\* POST /intelligence/score/tx
ScoreTx ==
    /\ \E payload \in TxPayloads :
           sc' = [stage |-> "scored", payload |-> payload,
                  res |-> _score_tx(IntelOf(db), payload)]
    /\ db' = _get_or_create_intel(db)
    /\ UNCHANGED <<CONFIG, RISK, TI, tick, last, loc, db0>>

NextTx == LearnTx \/ ScoreTx

SpecTx == InitTx /\ [][NextTx]_vars

\* C21: every learned transaction moves the category's statistics by the
\* recurrence median_t = 0.9 median_{t-1} + 0.1 amount and MAD_t = 0.9
\* MAD_{t-1} + 0.1 |amount - median_t|, from median_0 = MAD_0 = 0, and adds
\* one to the count.
C21_EwmaRecurrence ==
    [][Len(db'.transactions) = Len(db.transactions) + 1 =>
          LET a   == db'.transactions[Len(db'.transactions)].amount
              old == MapGet(IntelOf(db).tx_category_stats, "FOOD", NoStats)
              new == MapGet(IntelOf(db').tx_category_stats, "FOOD", NoStats)
              med == (9 * old.median + 1000 * a) \div 10
          IN  /\ new.n = old.n + 1
              /\ new.median = med
              /\ new.mad = (9 * old.mad + Abs(1000 * a - med)) \div 10]_vars

\* C22: the scorer returns a total within 0..100 and never fails; the
\* amount-deviation points are 0 unless the category has at least 5 recorded
\* transactions; new-merchant and rare-merchant points never come together.
C22_TxScoreTotal ==
    sc.stage = "scored" =>
        /\ ~sc.res.raised
        /\ sc.res.value.total \in 0..100
        /\ sc.res.value.n < 5 => sc.res.value.amount_deviation = 0
        /\ ~(sc.res.value.new_merchant > 0 /\ sc.res.value.rare_merchant > 0)


(***************************************************************************)
(* Threat-intelligence feeds under reloads, lookups and status reads.      *)
(***************************************************************************)
\* the contents the feed files can have at a reload
Feeds ==
    {[bad |-> {}, tor |-> {}, asn |-> {}],
     [bad |-> {IpTokyo}, tor |-> {}, asn |-> {"AS64500"}],
     [bad |-> {IpLondon, "not-an-ip"}, tor |-> {IpTokyo}, asn |-> {}],
     [bad |-> {IpTokyo}, tor |-> {IpTokyo, "not-an-ip"}, asn |-> {}]}

\* the module as imported, with TI_ENABLE set or not, before any reload
InitTi ==
    /\ db = InitDb("corp.example")
    /\ db0 = db
    /\ CONFIG = DefaultConfig
    /\ RISK = [step_up |-> DefaultConfig.step_up_threshold,
               hard_deny |-> DefaultConfig.hard_deny_threshold]
    /\ \E e \in BOOLEAN :
           TI = [enabled |-> e, ip_bad |-> {}, ip_tor |-> {}, asn_bad |-> {},
                 bad_domains |-> {}, cache |-> EmptyMap]
    /\ tick = 0
    /\ last = Idle
    /\ loc = [p \in Procs |-> Idle.l]
    /\ sc = [stage |-> "start", ip |-> IpPrivate, res |-> NoTiFlags,
             status |-> status([enabled |-> FALSE, ip_bad |-> {}, ip_tor |-> {},
                                asn_bad |-> {}, bad_domains |-> {}])]

\* POST /ti/reload
TiReload ==
    /\ \E files \in Feeds : TI' = reload(TI, files)
    /\ sc' = [sc EXCEPT !.stage = "reloaded"]
    /\ UNCHANGED <<db, CONFIG, RISK, tick, last, loc, db0>>

\* GET /ti/lookup_ip and GET /soc/recheck_ip
TiLookup ==
    /\ \E ip \in {IpLondon, IpTokyo, "not-an-ip"} :
           /\ sc' = [sc EXCEPT !.stage = "looked", !.ip = ip,
                               !.res = lookup_ip(TI, ip)]
           /\ TI' = lookup_ip_state(TI, ip)
    /\ UNCHANGED <<db, CONFIG, RISK, tick, last, loc, db0>>

\* GET /ti/status
TiStatus ==
    /\ sc' = [sc EXCEPT !.stage = "status", !.status = status(TI)]
    /\ UNCHANGED <<db, CONFIG, RISK, TI, tick, last, loc, db0>>

NextTi == TiReload \/ TiLookup \/ TiStatus

SpecTi == InitTi /\ [][NextTi]_vars

\* C23: a lookup reports ti_bad_ip exactly when the address lies in the
\* bad-IP feed loaded most recently, and ti_tor_exit exactly when it lies in
\* the Tor feed loaded most recently.
C23_LookupFollowsFeeds ==
    (sc.stage = "looked" /\ TI.enabled) =>
        /\ sc.res.ti_bad_ip = (sc.ip \in TI.ip_bad)
        /\ sc.res.ti_tor_exit = (sc.ip \in TI.ip_tor)

\* C24: with threat intelligence disabled, or for a string that is no IP
\* address, a lookup returns all flags false and a suggested bump of 0; with
\* it disabled the status reports enabled = false and a count of 0 for
\* every feed.
C24_DisabledOrInvalid ==
    /\ (sc.stage = "looked" /\ (~TI.enabled \/ ~IsIpAddress(sc.ip))) =>
           /\ ~sc.res.ti_bad_ip /\ ~sc.res.ti_tor_exit /\ ~sc.res.ti_bad_asn
           /\ sc.res.ti_score_bump_suggest = 0
    /\ (sc.stage = "status" /\ ~TI.enabled) =>
           /\ ~sc.status.enabled
           /\ \A f \in DOMAIN sc.status.counts : sc.status.counts[f] = 0

\* C24 witness: a lookup of a string that is no address while the loaded
\* bad-IP feed is not empty
C24_Witness ==
    /\ sc.stage = "looked"
    /\ TI.enabled
    /\ sc.ip = "not-an-ip"
    /\ TI.ip_bad # {}
    /\ "not-an-ip" \in DOMAIN TI.cache


(***************************************************************************)
(* The SOC alert queue (routers/soc.py).  ALERTS is kept in sc.alerts; an  *)
(* alert is its ip (the n-th alert carries the n-th distinct address) and  *)
(* its normalised timestamp in seconds.                                    *)
(***************************************************************************)
MaxStored == 50
MaxPosts == 2
DefaultLimit == 50
MaxAlerts == 10000
SocNow == 1000

\* _normalize_alert: a missing timestamp becomes the current time
_normalize_alert(evt, now) ==
    [ip |-> evt.ip,
     timestamp |-> IF evt.timestamp = NoTime THEN now ELSE evt.timestamp]

\* sorted(ALERTS, key=timestamp, reverse=True)[:limit]; the sort is stable
list_alerts(A, limit) ==
    LET rank == [i \in 1..Len(A) |->
                    Cardinality({j \in 1..Len(A) :
                        \/ A[j].timestamp > A[i].timestamp
                        \/ (A[j].timestamp = A[i].timestamp /\ j < i)}) + 1]
    IN  [k \in 1..Min(limit, Len(A)) |->
            A[CHOOSE i \in 1..Len(A) : rank[i] = k]]

\* a queue that already holds n alerts posted without a timestamp
InitSoc ==
    /\ QuietInit
    /\ \E n \in 0..MaxStored :
           sc = [stage |-> "start",
                 alerts |-> [i \in 1..n |-> [ip |-> i, timestamp |-> SocNow]],
                 listing |-> <<>>, posts |-> 0]

\* POST /soc/alert
CreateAlert ==
    /\ sc.posts < MaxPosts
    /\ \E ts \in {NoTime, 123, 2000} :
           LET A == Append(sc.alerts,
                           _normalize_alert([ip |-> Len(sc.alerts) + 1,
                                             timestamp |-> ts], SocNow))
           IN  sc' = [stage |-> "posted",
                      alerts |-> IF Len(A) > MaxAlerts
                                   THEN SubSeq(A, Len(A) - MaxAlerts + 1, Len(A))
                                   ELSE A,
                      listing |-> <<>>, posts |-> sc.posts + 1]
    /\ UNCHANGED <<db, CONFIG, RISK, TI, tick, last, loc, db0>>

\* GET /soc/alerts with the default limit
ListAlerts ==
    /\ sc' = [sc EXCEPT !.stage = "listed",
                        !.listing = list_alerts(sc.alerts, DefaultLimit)]
    /\ UNCHANGED <<db, CONFIG, RISK, TI, tick, last, loc, db0>>

NextSoc == CreateAlert \/ ListAlerts

SpecSoc == InitSoc /\ [][NextSoc]_vars

\* C25: a listing with the default limit includes the alert posted last,
\* whatever is already stored.
C25_PostedAlertListed ==
    (sc.stage = "listed" /\ sc.alerts # <<>>) =>
        \E k \in 1..Len(sc.listing) :
            sc.listing[k].ip = sc.alerts[Len(sc.alerts)].ip


(***************************************************************************)
(* The adversary simulation (routers/adversary.run_attack).  The random    *)
(* generator is a sequence of picks, one per generated event.              *)
(***************************************************************************)
MaxAttack == 3      \* the largest count requested
MaxRuns == 1        \* simulation runs per behaviour

\* the event a generator yields for one pick
AttackEvent(kind, pick) ==
    IF kind = "credential_stuffing"
      THEN [ip |-> IpTokyo, device_hash |-> IF pick THEN None ELSE "bot",
            success |-> FALSE, note |-> "credential_stuff"]
      ELSE [ip |-> IpLondon, device_hash |-> "spoof", success |-> pick,
            note |-> "device_spoof"]

\* _generate_impossible_travel: a prior success and a remote success
ImpossibleTravelPair ==
    <<[ip |-> IpLondon, device_hash |-> "dev", success |-> TRUE,
       note |-> "prior_success"],
      [ip |-> IpTokyo, device_hash |-> "dev", success |-> TRUE,
       note |-> "impossible_travel"]>>

\* a mutant of Truncated: the pairs are kept whole
Truncated_whole(evs, count) == evs

\* evs[:count]
Truncated(evs, count) == SubSeq(evs, 1, Min(count, Len(evs)))

\* the while loops of run_attack: extend evs until it holds count events;
\* picks[i] is what the generator draws in round i, mix[i] the attack that
\* choice(mix) names in round i
RECURSIVE GenerateLoop(_, _, _, _, _, _)
GenerateLoop(attack, count, picks, mix, evs, i) ==
    IF Len(evs) >= count THEN evs
    ELSE LET a == IF attack = "mixed" THEN mix[i] ELSE attack
         IN  GenerateLoop(attack, count, picks, mix,
                          evs \o (IF a = "impossible_travel"
                                    THEN ImpossibleTravelPair
                                    ELSE <<AttackEvent(a, picks[i])>>),
                          i + 1)

\* the scoring loop of run_attack: the rows to insert, one per event when
\* persisting
RECURSIVE AttackLoop(_, _, _, _, _, _)
AttackLoop(evs, candidate, intel, cfg, persist, clock) ==
    IF evs = <<>> THEN <<>>
    ELSE LET ev   == Head(evs)
             fake == LoginEvent(clock, ev.ip, ev.device_hash, ev.success, 0, "")
             cand == Append(candidate, fake)
             r    == score_login(cfg, cand, intel.login_cities,
                                 intel.login_hours_hist, intel.device_trust,
                                 ev.ip, FALSE, ev.device_hash,
                                 MapGet(intel.device_trust, ev.device_hash, FALSE),
                                 FALSE, 0, clock, NoSpeed, NoTime)
         IN  (IF persist
                THEN <<LoginEvent(clock, ev.ip, ev.device_hash, ev.success,
                                  r.total, ev.note)>>   \* "adversary_sim|" + note
                ELSE <<>>)
             \o AttackLoop(Tail(evs), cand, intel, cfg, persist, clock)

\* run_attack: the database after the request and the summary returned
run_attack(D, cfg, req, picks, mix, clock) ==
    IF req.attack \notin {"credential_stuffing", "device_spoof",
                          "impossible_travel", "mixed"}
    THEN [db |-> D, status |-> 400, generated |-> 0, inserted |-> 0]
    ELSE LET evs  == Truncated(GenerateLoop(req.attack, req.count, picks, mix,
                                            <<>>, 1), req.count)
             D1   == _get_or_create_intel(D)
             rows == AttackLoop(evs, D1.login_events, D1.user_intel[UserId],
                                cfg, req.persist, clock)
         IN  [db |-> [D1 EXCEPT !.login_events = @ \o rows],
              status |-> 200, generated |-> Len(evs), inserted |-> Len(rows)]

\* the draws of Random(seed) for three seeds: per round the pick of the
\* generator and the attack named by choice(mix)
AttackRngs ==
    LET kinds == <<"credential_stuffing", "impossible_travel", "device_spoof">>
    IN  {[picks |-> [i \in 1..(MaxAttack + 1) |-> (i % 2) = (b % 2)],
          mix |-> [i \in 1..(MaxAttack + 1) |-> kinds[((i + b) % 3) + 1]]] :
            b \in 0..2}

\* an account with no login yet, after one successful login, and after a
\* failed and a successful login
InitAdv ==
    /\ CONFIG = DefaultConfig
    /\ RISK = [step_up |-> DefaultConfig.step_up_threshold,
               hard_deny |-> DefaultConfig.hard_deny_threshold]
    /\ TI = InitTI
    /\ tick = 0
    /\ last = Idle
    /\ loc = [p \in Procs |-> Idle.l]
    /\ LET D0 == InitDb("corp.example")
           D1 == login(D0, TI, CONFIG, RISK,
                       LoginBody(IpLondon, "d1", None, TRUE), Now).db
           D2 == login(login(D0, TI, CONFIG, RISK,
                             LoginBody(IpLondon, "d1", None, FALSE), Now).db,
                       TI, CONFIG, RISK,
                       LoginBody(IpTokyo, "d2", None, TRUE), Now).db
       IN  db \in {D0, D1, D2}
    /\ db0 = db
    /\ sc = [stage |-> "start", runs |-> 0,
             req |-> [attack |-> "mixed", count |-> 1, persist |-> FALSE],
             generated |-> 0, inserted |-> 0]

\* POST /adversary/run
RunAttack ==
    /\ sc.runs < MaxRuns
    /\ \E attack \in {"credential_stuffing", "device_spoof",
                      "impossible_travel", "mixed", "tx_fuzz"},
          count \in 1..MaxAttack, persist \in BOOLEAN,
          rng \in AttackRngs :
           LET req == [attack |-> attack, count |-> count, persist |-> persist]
               r   == run_attack(db, CONFIG, req, rng.picks, rng.mix, Now)
           IN  /\ db' = r.db
               /\ sc' = [stage |-> IF r.status = 200 THEN "ran" ELSE "rejected",
                         runs |-> sc.runs + 1, req |-> req,
                         generated |-> r.generated, inserted |-> r.inserted]
    /\ last' = Idle
    /\ UNCHANGED <<CONFIG, RISK, TI, tick, loc, db0>>

NextAdv == RunAttack

SpecAdv == InitAdv /\ [][NextAdv]_vars

\* C26: a run of a login attack generates exactly the requested number of
\* events; without persist it reports inserted = 0 and leaves the stored
\* login events as they were; with persist it appends one login event per
\* generated event and reports inserted = generated.
C26_AttackRunEffect ==
    [][(sc'.runs = sc.runs + 1 /\ sc'.stage = "ran") =>
          /\ sc'.generated = sc'.req.count
          /\ ~sc'.req.persist =>
                 /\ sc'.inserted = 0
                 /\ db'.login_events = db.login_events
          /\ sc'.req.persist =>
                 /\ sc'.inserted = sc'.generated
                 /\ Len(db'.login_events)
                        = Len(db.login_events) + sc'.generated
                 /\ SubSeq(db'.login_events, 1, Len(db.login_events))
                        = db.login_events]_vars

\* C26 witness: a persisted impossible_travel run of an odd count on an
\* account that already had login events
C26_Witness ==
    /\ sc.stage = "ran"
    /\ sc.req.attack = "impossible_travel"
    /\ sc.req.count = 3
    /\ sc.req.persist
    /\ sc.inserted = 3
    /\ Len(db.login_events) > 3
    /\ db.login_events[1].risk_reason # "impossible_travel"


\* C27: after any sequence of configuration updates the thresholds the login
\* decision compares against are those of the current RiskConfig.
C27_ThresholdsAligned ==
    /\ RISK.step_up = CONFIG.step_up_threshold
    /\ RISK.hard_deny = CONFIG.hard_deny_threshold


(***************************************************************************)
(* Account lockout: one device, right and wrong passwords, and the clock.  *)
(***************************************************************************)
MaxLockEvents == 6

LockLogin ==
    LoginUpTo({LoginBody(IpLondon, "d1", None, TRUE),
               LoginBody(IpLondon, "d1", None, FALSE)}, MaxLockEvents)

NextLock == LockLogin \/ Tick

SpecLock == Init /\ [][NextLock]_vars

\* C28: the lock is set exactly when a failed-password attempt brings the
\* failed-attempt counter to 5 or more; while the lock has not expired every
\* attempt is rejected and changes nothing of the account; only an attempt
\* with a correct password made while unlocked resets the counter and
\* clears the lock.
C28_Lockout ==
    [][last'.op = "login" =>
          LET u    == db.user
              u2   == db'.user
              l    == last'.l
              held == u.lock_until # NoTime /\ Now < u.lock_until
              bad  == ~held /\ ~l.body.password_ok
              good == ~held /\ l.body.password_ok
          IN  /\ held => (l.status = "locked" /\ db' = db)
              /\ (bad /\ u.failed_attempts + 1 >= 5) =>
                     u2.lock_until = Now + 15
              /\ (u2.lock_until # u.lock_until /\ u2.lock_until # NoTime) =>
                     (bad /\ u2.failed_attempts >= 5)
              /\ bad => u2.failed_attempts = u.failed_attempts + 1
              /\ good => (u2.failed_attempts = 0 /\ u2.lock_until = NoTime)
              /\ (\/ (u2.failed_attempts = 0 /\ u.failed_attempts # 0)
                  \/ (u2.lock_until = NoTime /\ u.lock_until # NoTime)) =>
                     good]_vars

\* C28 witness: an attempt with the correct password rejected by the lock
\* that the fifth failure set
C28_Witness ==
    /\ last.op = "login"
    /\ last.l.status = "locked"
    /\ last.l.body.password_ok
    /\ db.user.failed_attempts = 5
    /\ db.user.lock_until = Now + 15


\* C29: impossible_travel is 0 for a login whenever either of the two most
\* recent successful logins it is computed from, the candidate included, is
\* at a location the resolver cannot place (private, loopback or unknown).
C29_UnresolvedNoTravel ==
    (/\ last.op = "login"
     /\ last.l.status \in {"hard_deny", "ok"}
     /\ Successes(last.l.recent) # <<>>
     /\ LET ss == Successes(last.l.recent)
        IN  \/ _geo_for_ip(last.l.body.ip) = "Unknown"
            \/ _geo_for_ip(ss[Len(ss)].ip) = "Unknown")
        => last.l.features.impossible_travel = 0


\* C30: once the explicit trust action has succeeded for a device of the
\* account, the next login of the account from that device is scored with
\* untrusted_device = 0: the trust map the scorer reads agrees with the
\* trusted flag of the device record.
C30_TrustedDeviceScored ==
    [][(/\ last.op = "trust_device"
        /\ last'.op = "login"
        /\ last'.l.status \in {"hard_deny", "ok"}
        /\ last'.l.device_hash \in DOMAIN db.devices
        /\ db.devices[last'.l.device_hash].trusted)
          => last'.l.features.untrusted_device = 0]_vars


====
